---- MODULE Spec2Model ----
(***************************************************************************)
(* A model of the CouchDB Go client: the Document codec                   *)
(* (Document.MarshalJSON / Document.UnmarshalJSON) and the request        *)
(* encoding of the view operations (Database.View, AllDocs, ViewWithKeys, *)
(* ViewByKey, the ViewBuilder).                                           *)
(*                                                                         *)
(* Go values of type interface{} are modelled as tagged records:          *)
(*   [t |-> "str", s], [t |-> "num", n], [t |-> "bool", b], [t |-> "null"],*)
(*   [t |-> "arr", a], [t |-> "obj", m], and [t |-> "chan"] for a Go value *)
(*   encoding/json cannot serialize (a channel, a func, a cyclic value).  *)
(* JSON text is modelled at token level: a payload is a sequence of token *)
(* texts, and a query parameter value is the concatenation of the tokens. *)
(* Strings are atomic (no character needing a JSON escape occurs).        *)
(***************************************************************************)
EXTENDS Integers, Sequences, FiniteSets, TLC

(***************************************************************************)
(* Bounds of the model.                                                    *)
(***************************************************************************)
MaxFields == 2     \* most keys a constructed Document's Data holds
MaxInt == 11       \* numbers range over 0..MaxInt (two decimal digits occur)
MaxSet == 2        \* most fields of an option set that are set, most calls of a chain
MaxCalls == 3      \* most calls one caller makes in a session with the service

(***************************************************************************)
(* Go values.                                                              *)
(***************************************************************************)
Str(s) == [t |-> "str", s |-> s]
Num(n) == [t |-> "num", n |-> n]
Bool(b) == [t |-> "bool", b |-> b]
Null == [t |-> "null"]
Arr(a) == [t |-> "arr", a |-> a]
Obj(m) == [t |-> "obj", m |-> m]
Chan == [t |-> "chan"]

EmptyMap == [k \in {} |-> Null]

MapSet(m, key, v) == [k \in (DOMAIN m) \cup {key} |-> IF k = key THEN v ELSE m[k]]

\* every string that occurs as a JSON string (a value or an object key)
Strings == {"", "Ann", "error", "reason", "not_found", "missing", "conflict", "exists",
            "X", "1-aaa", "5", "cat", "name", "age", "_id", "_rev", "_deleted", "keys", "docs",
            "Y", "2-bbb", "3-ccc", "id", "rev", "ok", "language", "javascript", "erlang",
            "views", "map", "reduce", "by", "fn", "_design/dd", "_design/by", "bad_request",
            "Document update conflict.", "Missing JSON list of 'docs'",
            "Document ID must match the ID in the URL"}

Numbers == 0..MaxInt

\* object keys in the byte order sort.Strings gives them (encoding/json
\* writes the keys of a map sorted)
KeyOrder == <<"_deleted", "_id", "_rev", "age", "by", "docs", "error", "id", "keys", "language",
              "map", "name", "ok", "reason", "reduce", "rev", "views">>

(***************************************************************************)
(* encoding/json, encoder side.                                            *)
(***************************************************************************)
Digit(d) == CASE d = 0 -> "0" [] d = 1 -> "1" [] d = 2 -> "2" [] d = 3 -> "3"
              [] d = 4 -> "4" [] d = 5 -> "5" [] d = 6 -> "6" [] d = 7 -> "7"
              [] d = 8 -> "8" [] d = 9 -> "9"

RECURSIVE Itoa(_)
\* decimal text of an integer: fmt.Sprintf("%d", n), and a JSON number
Itoa(n) == IF n < 0 THEN "-" \o Itoa(0 - n)
           ELSE IF n < 10 THEN Digit(n)
           ELSE Itoa(n \div 10) \o Digit(n % 10)

\* a JSON string literal
Quote(s) == "\"" \o s \o "\""

RECURSIVE Serializable(_)
\* json.Marshal succeeds on v
Serializable(v) ==
    CASE v.t = "chan" -> FALSE
      [] v.t = "arr" -> \A i \in 1..Len(v.a) : Serializable(v.a[i])
      [] v.t = "obj" -> \A k \in DOMAIN v.m : Serializable(v.m[k])
      [] OTHER -> TRUE

SortedKeys(m) == SelectSeq(KeyOrder, LAMBDA k : k \in DOMAIN m)

RECURSIVE Tokens(_), ElementTokens(_, _), MemberTokens(_, _, _)
\* the JSON text of a serializable value, token by token
Tokens(v) ==
    CASE v.t = "str" -> <<Quote(v.s)>>
      [] v.t = "num" -> <<Itoa(v.n)>>
      [] v.t = "bool" -> <<IF v.b THEN "true" ELSE "false">>
      [] v.t = "null" -> <<"null">>
      [] v.t = "arr" -> <<"[">> \o ElementTokens(v.a, 1) \o <<"]">>
      [] v.t = "obj" -> <<"{">> \o MemberTokens(v.m, SortedKeys(v.m), 1) \o <<"}">>

ElementTokens(a, i) ==
    IF i > Len(a) THEN <<>>
    ELSE (IF i > 1 THEN <<",">> ELSE <<>>) \o Tokens(a[i]) \o ElementTokens(a, i + 1)

MemberTokens(m, ks, i) ==
    IF i > Len(ks) THEN <<>>
    ELSE (IF i > 1 THEN <<",">> ELSE <<>>) \o <<Quote(ks[i]), ":">> \o Tokens(m[ks[i]])
         \o MemberTokens(m, ks, i + 1)

RECURSIVE Concat(_)
\* the text a token sequence stands for
Concat(toks) == IF toks = <<>> THEN "" ELSE Head(toks) \o Concat(Tail(toks))

\* json.Marshal(v): the bytes (as tokens) and the error
JSONMarshal(v) ==
    IF Serializable(v) THEN [err |-> FALSE, toks |-> Tokens(v)]
    ELSE [err |-> TRUE, toks |-> <<>>]

(***************************************************************************)
(* encoding/json, decoder side.                                            *)
(***************************************************************************)
\* the lexer's tables: the text of every string and number literal
StringTokens == [tk \in {Quote(s) : s \in Strings} |-> CHOOSE s \in Strings : Quote(s) = tk]
NumberTokens == [tk \in {Itoa(n) : n \in Numbers} |-> CHOOSE n \in Numbers : Itoa(n) = tk]

IsStringToken(tk) == tk \in DOMAIN StringTokens
Unquote(tk) == StringTokens[tk]
IsNumberToken(tk) == tk \in DOMAIN NumberTokens
Atoi(tk) == NumberTokens[tk]

ParseFail == [ok |-> FALSE, v |-> Null, next |-> 0]
ParseOk(v, next) == [ok |-> TRUE, v |-> v, next |-> next]

RECURSIVE ParseValue(_, _), ParseElements(_, _, _), ParseMembers(_, _, _)
\* parse one JSON value starting at token i
ParseValue(toks, i) ==
    IF i > Len(toks) THEN ParseFail
    ELSE LET tk == toks[i] IN
         CASE tk = "{" ->
                IF i + 1 <= Len(toks) /\ toks[i + 1] = "}"
                THEN ParseOk(Obj(EmptyMap), i + 2)
                ELSE ParseMembers(toks, i + 1, EmptyMap)
           [] tk = "[" ->
                IF i + 1 <= Len(toks) /\ toks[i + 1] = "]"
                THEN ParseOk(Arr(<<>>), i + 2)
                ELSE ParseElements(toks, i + 1, <<>>)
           [] tk = "true" -> ParseOk(Bool(TRUE), i + 1)
           [] tk = "false" -> ParseOk(Bool(FALSE), i + 1)
           [] tk = "null" -> ParseOk(Null, i + 1)
           [] OTHER ->
                IF IsStringToken(tk) THEN ParseOk(Str(Unquote(tk)), i + 1)
                ELSE IF IsNumberToken(tk) THEN ParseOk(Num(Atoi(tk)), i + 1)
                ELSE ParseFail

ParseElements(toks, i, acc) ==
    LET r == ParseValue(toks, i) IN
    IF ~r.ok \/ r.next > Len(toks) THEN ParseFail
    ELSE IF toks[r.next] = "," THEN ParseElements(toks, r.next + 1, Append(acc, r.v))
    ELSE IF toks[r.next] = "]" THEN ParseOk(Arr(Append(acc, r.v)), r.next + 1)
    ELSE ParseFail

\* members of an object; a repeated key keeps its last value
ParseMembers(toks, i, acc) ==
    IF i + 1 > Len(toks) \/ ~IsStringToken(toks[i]) \/ toks[i + 1] # ":" THEN ParseFail
    ELSE LET r == ParseValue(toks, i + 2) IN
         IF ~r.ok \/ r.next > Len(toks) THEN ParseFail
         ELSE IF toks[r.next] = ","
              THEN ParseMembers(toks, r.next + 1, MapSet(acc, Unquote(toks[i]), r.v))
         ELSE IF toks[r.next] = "}"
              THEN ParseOk(Obj(MapSet(acc, Unquote(toks[i]), r.v)), r.next + 1)
         ELSE ParseFail

\* json.Unmarshal(data, &doc) with var doc map[string]interface{}: a syntax
\* error or a top-level value that is neither an object nor null is an
\* error; null leaves the map nil, which ranges like the empty map.
JSONUnmarshalMap(data) ==
    LET r == ParseValue(data, 1) IN
    IF ~r.ok \/ r.next # Len(data) + 1 THEN [err |-> TRUE, m |-> EmptyMap]
    ELSE IF r.v.t = "obj" THEN [err |-> FALSE, m |-> r.v.m]
    ELSE IF r.v.t = "null" THEN [err |-> FALSE, m |-> EmptyMap]
    ELSE [err |-> TRUE, m |-> EmptyMap]

(***************************************************************************)
(* The Document codec.                                                     *)
(***************************************************************************)
ReservedKeys == {"_id", "_rev", "_deleted"}

IDs == {"", "X"}
Revs == {"", "1-aaa"}
DataKeys == {"name", "age", "_id", "_rev", "_deleted"}
FieldValues == {Str("Ann"), Num(5), Bool(TRUE), Null,
                Arr(<<Str("cat"), Num(0)>>), Obj([name |-> Str("X")])}

\* what a caller may put under a reserved key of Data
SmuggledValues == {Str("Ann"), Num(5), Bool(TRUE)}

DataMaps == UNION {{m \in [ks -> FieldValues] :
                       \A k \in ks \cap ReservedKeys : m[k] \in SmuggledValues} :
                      ks \in {s \in SUBSET DataKeys : Cardinality(s) <= MaxFields}}

\* type Document struct { ID, Rev string; Deleted bool; Data map[string]interface{} }
\* (a nil Data and an empty Data are the same mapping)
Documents == [ID : IDs, Rev : Revs, Deleted : BOOLEAN, Data : DataMaps]

\* var doc Document
ZeroDocument == [ID |-> "", Rev |-> "", Deleted |-> FALSE, Data |-> EmptyMap]

\* DocMap with the _id written whether or not the ID is empty
DocMapAlwaysID(d) ==
    LET m1 == MapSet(d.Data, "_id", Str(d.ID))
        m2 == IF d.Rev # "" THEN MapSet(m1, "_rev", Str(d.Rev)) ELSE m1
        m3 == IF d.Deleted THEN MapSet(m2, "_deleted", Bool(d.Deleted)) ELSE m2
    IN m3

\* the map Document.MarshalJSON builds: the data fields, then the system fields
DocMap(d) ==
    LET m0 == d.Data
        m1 == IF d.ID # "" THEN MapSet(m0, "_id", Str(d.ID)) ELSE m0
        m2 == IF d.Rev # "" THEN MapSet(m1, "_rev", Str(d.Rev)) ELSE m1
        m3 == IF d.Deleted THEN MapSet(m2, "_deleted", Bool(d.Deleted)) ELSE m2
    IN m3

\* func (d *Document) MarshalJSON() ([]byte, error)
MarshalJSON(d) == JSONMarshal(Obj(DocMap(d)))

\* UnmarshalJSON without the case "_deleted": the key goes to Data
UnmarshalJSONNoDeleted(d, data) ==
    LET u == JSONUnmarshalMap(data)
        has(k, ty) == k \in DOMAIN u.m /\ u.m[k].t = ty
    IN IF u.err THEN [err |-> TRUE, d |-> d]
       ELSE [err |-> FALSE,
             d |-> [ID |-> IF has("_id", "str") THEN u.m["_id"].s ELSE d.ID,
                    Rev |-> IF has("_rev", "str") THEN u.m["_rev"].s ELSE d.Rev,
                    Deleted |-> d.Deleted,
                    Data |-> [k \in (DOMAIN u.m) \ {"_id", "_rev"} |-> u.m[k]]]]

\* UnmarshalJSON with a reserved key of the wrong type copied to Data
UnmarshalJSONKeepsMistyped(d, data) ==
    LET u == JSONUnmarshalMap(data)
        has(k, ty) == k \in DOMAIN u.m /\ u.m[k].t = ty
        hoisted == {k \in DOMAIN u.m : \/ k = "_id" /\ has(k, "str")
                                       \/ k = "_rev" /\ has(k, "str")
                                       \/ k = "_deleted" /\ has(k, "bool")}
    IN IF u.err THEN [err |-> TRUE, d |-> d]
       ELSE [err |-> FALSE,
             d |-> [ID |-> IF has("_id", "str") THEN u.m["_id"].s ELSE d.ID,
                    Rev |-> IF has("_rev", "str") THEN u.m["_rev"].s ELSE d.Rev,
                    Deleted |-> IF has("_deleted", "bool") THEN u.m["_deleted"].b
                                ELSE d.Deleted,
                    Data |-> [k \in (DOMAIN u.m) \ hoisted |-> u.m[k]]]]

\* UnmarshalJSON with d.Data = make(...) moved before the error check
UnmarshalJSONClearsFirst(d, data) ==
    LET u == JSONUnmarshalMap(data)
        has(k, ty) == k \in DOMAIN u.m /\ u.m[k].t = ty
    IN IF u.err THEN [err |-> TRUE, d |-> [d EXCEPT !.Data = EmptyMap]]
       ELSE [err |-> FALSE,
             d |-> [ID |-> IF has("_id", "str") THEN u.m["_id"].s ELSE d.ID,
                    Rev |-> IF has("_rev", "str") THEN u.m["_rev"].s ELSE d.Rev,
                    Deleted |-> IF has("_deleted", "bool") THEN u.m["_deleted"].b
                                ELSE d.Deleted,
                    Data |-> [k \in (DOMAIN u.m) \ ReservedKeys |-> u.m[k]]]]

\* UnmarshalJSON that starts from an empty Document: an attribute whose
\* reserved key is missing or mistyped is reset
UnmarshalJSONResets(d, data) ==
    LET u == JSONUnmarshalMap(data)
        has(k, ty) == k \in DOMAIN u.m /\ u.m[k].t = ty
    IN IF u.err THEN [err |-> TRUE, d |-> d]
       ELSE [err |-> FALSE,
             d |-> [ID |-> IF has("_id", "str") THEN u.m["_id"].s ELSE "",
                    Rev |-> IF has("_rev", "str") THEN u.m["_rev"].s ELSE "",
                    Deleted |-> IF has("_deleted", "bool") THEN u.m["_deleted"].b
                                ELSE FALSE,
                    Data |-> [k \in (DOMAIN u.m) \ ReservedKeys |-> u.m[k]]]]

\* func (d *Document) UnmarshalJSON(data []byte) error: the error and the
\* Document afterwards
UnmarshalJSON(d, data) ==
    LET u == JSONUnmarshalMap(data)
        has(k, ty) == k \in DOMAIN u.m /\ u.m[k].t = ty
    IN IF u.err THEN [err |-> TRUE, d |-> d]
       ELSE [err |-> FALSE,
             d |-> [ID |-> IF has("_id", "str") THEN u.m["_id"].s ELSE d.ID,
                    Rev |-> IF has("_rev", "str") THEN u.m["_rev"].s ELSE d.Rev,
                    Deleted |-> IF has("_deleted", "bool") THEN u.m["_deleted"].b
                                ELSE d.Deleted,
                    Data |-> [k \in (DOMAIN u.m) \ ReservedKeys |-> u.m[k]]]]

\* payloads a server or a caller hands to UnmarshalJSON
Payloads ==
    { Tokens(Obj([_id |-> Str("X"), _rev |-> Str("1-aaa"), name |-> Str("Ann"), age |-> Num(5)])),
      Tokens(Obj([_id |-> Str("X"), _rev |-> Str("1-aaa"), _deleted |-> Bool(TRUE)])),
      Tokens(Obj([name |-> Str("Ann"), age |-> Num(MaxInt)])),
      Tokens(Obj([_id |-> Num(5), _rev |-> Null, _deleted |-> Str("X"), name |-> Str("Ann")])),
      Tokens(Obj([_id |-> Str(""), _deleted |-> Bool(FALSE)])),
      Tokens(Obj([name |-> Arr(<<Str("cat"), Num(0)>>), age |-> Obj([name |-> Null])])),
      <<"{", "\"_id\"", ":", "\"X\"", ",", "\"_id\"", ":", "5", "}">>,
      <<"{", "}">>,
      <<"null">>,
      <<>>,
      <<"5">>,
      <<"\"X\"">>,
      <<"true">>,
      <<"[", "\"X\"", "]">>,
      <<"{", "\"name\"", ":">>,
      <<"{", "\"name\"", ":", "\"Ann\"", ",", "}">>,
      <<"{", "\"_id\"", ":", "\"X\"", "}", "}">>,
      <<"{", "name", ":", "5", "}">>,
      <<"Internal", "Server", "Error">> }

(***************************************************************************)
(* View options and the requests the operations build.                     *)
(***************************************************************************)
\* type ViewOptions struct: the zero value.  A nil interface{} is Null, an
\* unset *bool is Null, a nil slice is <<>>.
ZeroOptions ==
    [Key |-> Null, Keys |-> <<>>, StartKey |-> Null, EndKey |-> Null,
     StartKeyDocID |-> "", EndKeyDocID |-> "",
     Limit |-> 0, Skip |-> 0, Descending |-> FALSE, InclusiveEnd |-> FALSE,
     Group |-> FALSE, GroupLevel |-> 0, Reduce |-> Null,
     IncludeDocs |-> FALSE, UpdateSeq |-> FALSE, Conflicts |-> FALSE,
     Attachments |-> FALSE, AttEncodingInfo |-> FALSE,
     Stale |-> "", Update |-> ""]

\* a nil *ViewOptions
NilOptions == [isNil |-> TRUE]

\* non-nil key values a caller may supply
KeyValues == {Str("5"), Num(5), Bool(TRUE), Arr(<<Str("5")>>),
              Arr(<<Str("cat"), Num(0)>>), Arr(<<Str("cat"), Num(2000)>>), Chan}

\* the values the model gives the range keys
StartKeyValues == {Str("5"), Num(5), Arr(<<Str("cat"), Num(0)>>), Chan}
EndKeyValues == {Str("5"), Arr(<<Str("cat"), Num(2000)>>), Chan}

\* non-empty key lists a caller may supply
KeysLists == {<<Num(5), Str("5"), Arr(<<Str("cat"), Num(0)>>)>>, <<Chan>>}

IntValues == {-1, MaxInt}

\* the non-default values each field of ViewOptions takes in the model
FieldChoices ==
    [Key |-> KeyValues, Keys |-> KeysLists, StartKey |-> StartKeyValues,
     EndKey |-> EndKeyValues,
     StartKeyDocID |-> {"X"}, EndKeyDocID |-> {"X"},
     Limit |-> IntValues, Skip |-> IntValues, Descending |-> {TRUE}, InclusiveEnd |-> {TRUE},
     Group |-> {TRUE}, GroupLevel |-> IntValues, Reduce |-> {Bool(TRUE), Bool(FALSE)},
     IncludeDocs |-> {TRUE}, UpdateSeq |-> {TRUE}, Conflicts |-> {TRUE},
     Attachments |-> {TRUE}, AttEncodingInfo |-> {TRUE},
     Stale |-> {"ok"}, Update |-> {"lazy"}]

\* the number of fields of an option set that differ from the zero value
SetCount(o) == Cardinality({f \in DOMAIN ZeroOptions : o[f] # ZeroOptions[f]})

RECURSIVE OptionSetsUpTo(_)
\* the option sets with at most n fields set
OptionSetsUpTo(n) ==
    IF n = 0 THEN {ZeroOptions}
    ELSE LET S == OptionSetsUpTo(n - 1) IN
         S \cup UNION {UNION {{[o EXCEPT ![f] = v] : v \in FieldChoices[f]} :
                                 f \in DOMAIN FieldChoices} : o \in S}

\* the *ViewOptions arguments of the direct calls
OptionSets == OptionSetsUpTo(MaxSet) \cup {NilOptions}

\* an option struct with every field set
FullOptions ==
    [Key |-> Num(5), Keys |-> <<Str("5")>>, StartKey |-> Str("5"), EndKey |-> Str("5"),
     StartKeyDocID |-> "X", EndKeyDocID |-> "X",
     Limit |-> 2, Skip |-> 2, Descending |-> TRUE, InclusiveEnd |-> TRUE,
     Group |-> TRUE, GroupLevel |-> 2, Reduce |-> Bool(TRUE),
     IncludeDocs |-> TRUE, UpdateSeq |-> TRUE, Conflicts |-> TRUE,
     Attachments |-> TRUE, AttEncodingInfo |-> TRUE,
     Stale |-> "ok", Update |-> "lazy"]

\* option structs with any number of the fields that bear on one another
\* set together: the single key and the key list, the ends of a range and
\* the direction, the grouping flag and level, reduce, limit and stale
CombinedOptionSets ==
    {[ZeroOptions EXCEPT !.Key = k, !.Keys = ks, !.StartKey = sk, !.EndKey = ek,
                         !.Descending = d, !.Group = g, !.GroupLevel = gl,
                         !.Reduce = r, !.Limit = l, !.Stale = st] :
        k \in {Null, Str("5")}, ks \in {<<>>, <<Num(5), Str("5")>>},
        sk \in {Null, Arr(<<Str("cat"), Num(0)>>)}, ek \in {Null, Str("5")},
        d \in BOOLEAN, g \in BOOLEAN, gl \in {0, 2}, r \in {Null, Bool(FALSE)},
        l \in {0, 2}, st \in {"", "ok"}}
    \cup {FullOptions, NilOptions}

DBName == "db"
DesignDocs == {"dd"}
ViewNames == {"by"}

\* the text json.Marshal gives with its error dropped: keyBytes, _ :=
\* json.Marshal(v); string(keyBytes) -- empty when v cannot be serialized
MarshalText(v) == Concat(JSONMarshal(v).toks)

RECURSIVE Sprintv(_), SprintvElements(_, _)
\* fmt.Sprintf("%v", v)
Sprintv(v) ==
    CASE v.t = "str" -> v.s
      [] v.t = "num" -> Itoa(v.n)
      [] v.t = "bool" -> IF v.b THEN "true" ELSE "false"
      [] v.t = "null" -> "<nil>"
      [] v.t = "arr" -> "[" \o SprintvElements(v.a, 1) \o "]"
      [] v.t = "obj" -> "map[]"
      [] v.t = "chan" -> "0xc000010000"

SprintvElements(a, i) ==
    IF i > Len(a) THEN ""
    ELSE (IF i > 1 THEN " " ELSE "") \o Sprintv(a[i]) \o SprintvElements(a, i + 1)

\* SetQueryParam without the test of the field: the parameter is always set
SetQueryParamAlways(q, cond, name, value) == MapSet(q, name, value)

\* req.SetQueryParam(name, value) when cond holds
SetQueryParam(q, cond, name, value) == IF cond THEN MapSet(q, name, value) ELSE q

\* ViewQuery with the keys formatted by fmt.Sprintf("%v") as in AllDocs
ViewQuerySprintv(opts) ==
    IF opts = NilOptions THEN EmptyMap
    ELSE
    LET q1 == SetQueryParam(EmptyMap, opts.Key # Null, "key", Sprintv(opts.Key))
        q2 == SetQueryParam(q1, Len(opts.Keys) > 0, "keys", Sprintv(Arr(opts.Keys)))
        q3 == SetQueryParam(q2, opts.StartKey # Null, "startkey", Sprintv(opts.StartKey))
        q4 == SetQueryParam(q3, opts.EndKey # Null, "endkey", Sprintv(opts.EndKey))
        q5 == SetQueryParam(q4, opts.StartKeyDocID # "", "startkey_docid", opts.StartKeyDocID)
        q6 == SetQueryParam(q5, opts.EndKeyDocID # "", "endkey_docid", opts.EndKeyDocID)
        q7 == SetQueryParam(q6, opts.Limit > 0, "limit", Itoa(opts.Limit))
        q8 == SetQueryParam(q7, opts.Skip > 0, "skip", Itoa(opts.Skip))
        q9 == SetQueryParam(q8, opts.Descending, "descending", "true")
        q10 == SetQueryParam(q9, opts.InclusiveEnd, "inclusive_end", "true")
        q11 == SetQueryParam(q10, opts.Group, "group", "true")
        q12 == SetQueryParam(q11, opts.GroupLevel > 0, "group_level", Itoa(opts.GroupLevel))
        q13 == SetQueryParam(q12, opts.Reduce # Null, "reduce",
                             IF opts.Reduce = Bool(TRUE) THEN "true" ELSE "false")
        q14 == SetQueryParam(q13, opts.IncludeDocs, "include_docs", "true")
        q15 == SetQueryParam(q14, opts.UpdateSeq, "update_seq", "true")
        q16 == SetQueryParam(q15, opts.Conflicts, "conflicts", "true")
        q17 == SetQueryParam(q16, opts.Attachments, "attachments", "true")
        q18 == SetQueryParam(q17, opts.AttEncodingInfo, "att_encoding_info", "true")
        q19 == SetQueryParam(q18, opts.Stale # "", "stale", opts.Stale)
        q20 == SetQueryParam(q19, opts.Update # "", "update", opts.Update)
    IN q20

\* ViewQuery with Reduce taken for a plain flag: reduce is sent only when true
ViewQueryReduceOnlyTrue(opts) ==
    IF opts = NilOptions THEN EmptyMap
    ELSE
    LET q1 == SetQueryParam(EmptyMap, opts.Key # Null, "key", MarshalText(opts.Key))
        q2 == SetQueryParam(q1, Len(opts.Keys) > 0, "keys", MarshalText(Arr(opts.Keys)))
        q3 == SetQueryParam(q2, opts.StartKey # Null, "startkey", MarshalText(opts.StartKey))
        q4 == SetQueryParam(q3, opts.EndKey # Null, "endkey", MarshalText(opts.EndKey))
        q5 == SetQueryParam(q4, opts.StartKeyDocID # "", "startkey_docid", opts.StartKeyDocID)
        q6 == SetQueryParam(q5, opts.EndKeyDocID # "", "endkey_docid", opts.EndKeyDocID)
        q7 == SetQueryParam(q6, opts.Limit > 0, "limit", Itoa(opts.Limit))
        q8 == SetQueryParam(q7, opts.Skip > 0, "skip", Itoa(opts.Skip))
        q9 == SetQueryParam(q8, opts.Descending, "descending", "true")
        q10 == SetQueryParam(q9, opts.InclusiveEnd, "inclusive_end", "true")
        q11 == SetQueryParam(q10, opts.Group, "group", "true")
        q12 == SetQueryParam(q11, opts.GroupLevel > 0, "group_level", Itoa(opts.GroupLevel))
        q13 == SetQueryParam(q12, opts.Reduce = Bool(TRUE), "reduce", "true")
        q14 == SetQueryParam(q13, opts.IncludeDocs, "include_docs", "true")
        q15 == SetQueryParam(q14, opts.UpdateSeq, "update_seq", "true")
        q16 == SetQueryParam(q15, opts.Conflicts, "conflicts", "true")
        q17 == SetQueryParam(q16, opts.Attachments, "attachments", "true")
        q18 == SetQueryParam(q17, opts.AttEncodingInfo, "att_encoding_info", "true")
        q19 == SetQueryParam(q18, opts.Stale # "", "stale", opts.Stale)
        q20 == SetQueryParam(q19, opts.Update # "", "update", opts.Update)
    IN q20

\* ViewQuery that swaps the ends of the range when the order is descending
ViewQuerySwapsOnDescending(opts) ==
    IF opts = NilOptions THEN EmptyMap
    ELSE
    LET first == IF opts.Descending THEN opts.EndKey ELSE opts.StartKey
        last == IF opts.Descending THEN opts.StartKey ELSE opts.EndKey
        q1 == SetQueryParam(EmptyMap, opts.Key # Null, "key", MarshalText(opts.Key))
        q2 == SetQueryParam(q1, Len(opts.Keys) > 0, "keys", MarshalText(Arr(opts.Keys)))
        q3 == SetQueryParam(q2, first # Null, "startkey", MarshalText(first))
        q4 == SetQueryParam(q3, last # Null, "endkey", MarshalText(last))
        q5 == SetQueryParam(q4, opts.StartKeyDocID # "", "startkey_docid", opts.StartKeyDocID)
        q6 == SetQueryParam(q5, opts.EndKeyDocID # "", "endkey_docid", opts.EndKeyDocID)
        q7 == SetQueryParam(q6, opts.Limit > 0, "limit", Itoa(opts.Limit))
        q8 == SetQueryParam(q7, opts.Skip > 0, "skip", Itoa(opts.Skip))
        q9 == SetQueryParam(q8, opts.Descending, "descending", "true")
        q10 == SetQueryParam(q9, opts.InclusiveEnd, "inclusive_end", "true")
        q11 == SetQueryParam(q10, opts.Group, "group", "true")
        q12 == SetQueryParam(q11, opts.GroupLevel > 0, "group_level", Itoa(opts.GroupLevel))
        q13 == SetQueryParam(q12, opts.Reduce # Null, "reduce",
                             IF opts.Reduce = Bool(TRUE) THEN "true" ELSE "false")
        q14 == SetQueryParam(q13, opts.IncludeDocs, "include_docs", "true")
        q15 == SetQueryParam(q14, opts.UpdateSeq, "update_seq", "true")
        q16 == SetQueryParam(q15, opts.Conflicts, "conflicts", "true")
        q17 == SetQueryParam(q16, opts.Attachments, "attachments", "true")
        q18 == SetQueryParam(q17, opts.AttEncodingInfo, "att_encoding_info", "true")
        q19 == SetQueryParam(q18, opts.Stale # "", "stale", opts.Stale)
        q20 == SetQueryParam(q19, opts.Update # "", "update", opts.Update)
    IN q20

\* the query parameters Database.View sets
ViewQuery(opts) ==
    IF opts = NilOptions THEN EmptyMap
    ELSE
    LET q1 == SetQueryParam(EmptyMap, opts.Key # Null, "key", MarshalText(opts.Key))
        q2 == SetQueryParam(q1, Len(opts.Keys) > 0, "keys", MarshalText(Arr(opts.Keys)))
        q3 == SetQueryParam(q2, opts.StartKey # Null, "startkey", MarshalText(opts.StartKey))
        q4 == SetQueryParam(q3, opts.EndKey # Null, "endkey", MarshalText(opts.EndKey))
        q5 == SetQueryParam(q4, opts.StartKeyDocID # "", "startkey_docid", opts.StartKeyDocID)
        q6 == SetQueryParam(q5, opts.EndKeyDocID # "", "endkey_docid", opts.EndKeyDocID)
        q7 == SetQueryParam(q6, opts.Limit > 0, "limit", Itoa(opts.Limit))
        q8 == SetQueryParam(q7, opts.Skip > 0, "skip", Itoa(opts.Skip))
        q9 == SetQueryParam(q8, opts.Descending, "descending", "true")
        q10 == SetQueryParam(q9, opts.InclusiveEnd, "inclusive_end", "true")
        q11 == SetQueryParam(q10, opts.Group, "group", "true")
        q12 == SetQueryParam(q11, opts.GroupLevel > 0, "group_level", Itoa(opts.GroupLevel))
        q13 == SetQueryParam(q12, opts.Reduce # Null, "reduce",
                             IF opts.Reduce = Bool(TRUE) THEN "true" ELSE "false")
        q14 == SetQueryParam(q13, opts.IncludeDocs, "include_docs", "true")
        q15 == SetQueryParam(q14, opts.UpdateSeq, "update_seq", "true")
        q16 == SetQueryParam(q15, opts.Conflicts, "conflicts", "true")
        q17 == SetQueryParam(q16, opts.Attachments, "attachments", "true")
        q18 == SetQueryParam(q17, opts.AttEncodingInfo, "att_encoding_info", "true")
        q19 == SetQueryParam(q18, opts.Stale # "", "stale", opts.Stale)
        q20 == SetQueryParam(q19, opts.Update # "", "update", opts.Update)
    IN q20

\* AllDocsQuery with limit and skip tested for non-zero instead of positive
AllDocsQueryNonZero(opts) ==
    IF opts = NilOptions THEN EmptyMap
    ELSE
    LET q1 == SetQueryParam(EmptyMap, opts.IncludeDocs, "include_docs", "true")
        q2 == SetQueryParam(q1, opts.Limit # 0, "limit", Itoa(opts.Limit))
        q3 == SetQueryParam(q2, opts.Skip # 0, "skip", Itoa(opts.Skip))
        q4 == SetQueryParam(q3, opts.Descending, "descending", "true")
        q5 == SetQueryParam(q4, opts.StartKey # Null, "startkey", Sprintv(opts.StartKey))
        q6 == SetQueryParam(q5, opts.EndKey # Null, "endkey", Sprintv(opts.EndKey))
    IN q6

\* the query parameters Database.AllDocs sets
AllDocsQuery(opts) ==
    IF opts = NilOptions THEN EmptyMap
    ELSE
    LET q1 == SetQueryParam(EmptyMap, opts.IncludeDocs, "include_docs", "true")
        q2 == SetQueryParam(q1, opts.Limit > 0, "limit", Itoa(opts.Limit))
        q3 == SetQueryParam(q2, opts.Skip > 0, "skip", Itoa(opts.Skip))
        q4 == SetQueryParam(q3, opts.Descending, "descending", "true")
        q5 == SetQueryParam(q4, opts.StartKey # Null, "startkey", Sprintv(opts.StartKey))
        q6 == SetQueryParam(q5, opts.EndKey # Null, "endkey", Sprintv(opts.EndKey))
    IN q6

\* the query parameters Database.ViewWithKeys sets
ViewWithKeysQuery(opts) ==
    IF opts = NilOptions THEN EmptyMap
    ELSE
    LET q1 == SetQueryParam(EmptyMap, opts.IncludeDocs, "include_docs", "true")
        q2 == SetQueryParam(q1, opts.Limit > 0, "limit", Itoa(opts.Limit))
        q3 == SetQueryParam(q2, opts.Skip > 0, "skip", Itoa(opts.Skip))
        q4 == SetQueryParam(q3, opts.Descending, "descending", "true")
        q5 == SetQueryParam(q4, opts.Group, "group", "true")
        q6 == SetQueryParam(q5, opts.GroupLevel > 0, "group_level", Itoa(opts.GroupLevel))
        q7 == SetQueryParam(q6, opts.Reduce # Null, "reduce",
                            IF opts.Reduce = Bool(TRUE) THEN "true" ELSE "false")
    IN q7

ViewPath(designDoc, viewName) ==
    "/" \o DBName \o "/_design/" \o designDoc \o "/_view/" \o viewName

AllDocsPath == "/" \o DBName \o "/_all_docs"

\* a request as the HTTP executor gets it; body is the token text of the
\* body, hasBody tells a request with a body from one without
Request(method, path, query, hasBody, body) ==
    [method |-> method, path |-> path, query |-> query, hasBody |-> hasBody, body |-> body]

\* ViewRequest that moves a non-empty Keys list to the body of a POST
ViewRequestKeysInBody(designDoc, viewName, opts) ==
    IF opts # NilOptions /\ Len(opts.Keys) > 0
    THEN Request("POST", ViewPath(designDoc, viewName),
                 ViewQuery([opts EXCEPT !.Keys = <<>>]), TRUE,
                 JSONMarshal(Obj([keys |-> Arr(opts.Keys)])).toks)
    ELSE Request("GET", ViewPath(designDoc, viewName), ViewQuery(opts), FALSE, <<>>)

\* ViewRequest that takes an array Key for a Keys list and posts it
ViewRequestArrayKeyInBody(designDoc, viewName, opts) ==
    IF opts # NilOptions /\ opts.Key.t = "arr"
    THEN Request("POST", ViewPath(designDoc, viewName),
                 ViewQuery([opts EXCEPT !.Key = Null]), TRUE,
                 JSONMarshal(Obj([keys |-> opts.Key])).toks)
    ELSE Request("GET", ViewPath(designDoc, viewName), ViewQuery(opts), FALSE, <<>>)

\* the request Database.View hands over: always a GET without a body
ViewRequest(designDoc, viewName, opts) ==
    Request("GET", ViewPath(designDoc, viewName), ViewQuery(opts), FALSE, <<>>)

\* the request Database.AllDocs hands over
AllDocsRequest(opts) == Request("GET", AllDocsPath, AllDocsQuery(opts), FALSE, <<>>)

\* the body Database.ViewWithKeys sets: map[string]interface{}{"keys": keys}
\* (a nil keys slice is written as null)
KeysBody(keys) == Obj([keys |-> IF keys = <<>> THEN Null ELSE Arr(keys)])

\* ViewWithKeysRequest with every key written as the string of its JSON text
ViewWithKeysRequestEncodedKeys(designDoc, viewName, keys, opts) ==
    Request("POST", ViewPath(designDoc, viewName), ViewWithKeysQuery(opts), TRUE,
            Tokens(Obj([keys |-> Arr([i \in 1..Len(keys) |-> Str(MarshalText(keys[i]))])])))

\* ViewWithKeysRequest that falls back to the Keys of the option set when the
\* keys argument is nil
ViewWithKeysRequestKeysFromOptions(designDoc, viewName, keys, opts) ==
    Request("POST", ViewPath(designDoc, viewName), ViewWithKeysQuery(opts), TRUE,
            Tokens(KeysBody(IF keys = <<>> /\ opts # NilOptions THEN opts.Keys ELSE keys)))

\* the request Database.ViewWithKeys hands over, once the body is serialized
ViewWithKeysRequest(designDoc, viewName, keys, opts) ==
    Request("POST", ViewPath(designDoc, viewName), ViewWithKeysQuery(opts),
            TRUE, Tokens(KeysBody(keys)))

(***************************************************************************)
(* Responses and errors.                                                   *)
(***************************************************************************)
\* what the HTTP executor answers: a transport failure, or a status and a body
Responses ==
    { [transport |-> TRUE, err |-> "timeout", status |-> 0, body |-> <<>>],
      [transport |-> FALSE, err |-> "", status |-> 200, body |-> <<"{", "}">>],
      [transport |-> FALSE, err |-> "", status |-> 404,
       body |-> <<"{", "\"error\"", ":", "\"not_found\"", ",", "\"reason\"", ":", "\"missing\"", "}">>] }

\* no call has returned yet, or the call returns nothing (a setter)
NoReturn == [kind |-> "none", status |-> 0, type |-> "", reason |-> ""]

\* parseError without the fallback: whatever was decoded is returned
parseErrorKeepsDecoded(resp) ==
    LET r == ParseValue(resp.body, 1)
        valid == r.ok /\ r.next = Len(resp.body) + 1
        m == IF valid /\ r.v.t = "obj" THEN r.v.m ELSE EmptyMap
        member(k) == IF k \in DOMAIN m /\ m[k].t = "str" THEN m[k].s ELSE ""
        mistyped == \E k \in {"error", "reason"} \cap DOMAIN m : m[k].t \notin {"str", "null"}
        failed == ~valid \/ r.v.t \notin {"obj", "null"} \/ mistyped
    IN IF failed
       THEN [kind |-> "couch", status |-> resp.status, type |-> member("error"),
             reason |-> member("reason")]
       ELSE [kind |-> "couch", status |-> resp.status, type |-> member("error"),
             reason |-> member("reason")]

\* parseError that sets the status code on the fallback path only
parseErrorStatusOnFallback(resp) ==
    LET r == ParseValue(resp.body, 1)
        valid == r.ok /\ r.next = Len(resp.body) + 1
        m == IF valid /\ r.v.t = "obj" THEN r.v.m ELSE EmptyMap
        member(k) == IF k \in DOMAIN m /\ m[k].t = "str" THEN m[k].s ELSE ""
        mistyped == \E k \in {"error", "reason"} \cap DOMAIN m : m[k].t \notin {"str", "null"}
        failed == ~valid \/ r.v.t \notin {"obj", "null"} \/ mistyped
    IN IF failed
       THEN [kind |-> "couch", status |-> resp.status, type |-> "unknown",
             reason |-> Concat(resp.body)]
       ELSE [kind |-> "couch", status |-> 0, type |-> member("error"),
             reason |-> member("reason")]

\* parseError that gives the type unknown to an error record without a type
parseErrorUnknownWhenEmpty(resp) ==
    LET r == ParseValue(resp.body, 1)
        valid == r.ok /\ r.next = Len(resp.body) + 1
        m == IF valid /\ r.v.t = "obj" THEN r.v.m ELSE EmptyMap
        member(k) == IF k \in DOMAIN m /\ m[k].t = "str" THEN m[k].s ELSE ""
        mistyped == \E k \in {"error", "reason"} \cap DOMAIN m : m[k].t \notin {"str", "null"}
        failed == ~valid \/ r.v.t \notin {"obj", "null"} \/ mistyped \/ member("error") = ""
    IN IF failed
       THEN [kind |-> "couch", status |-> resp.status, type |-> "unknown",
             reason |-> Concat(resp.body)]
       ELSE [kind |-> "couch", status |-> resp.status, type |-> member("error"),
             reason |-> member("reason")]

\* func (c *Client) parseError(resp *resty.Response) error
parseError(resp) ==
    LET r == ParseValue(resp.body, 1)
        valid == r.ok /\ r.next = Len(resp.body) + 1
        m == IF valid /\ r.v.t = "obj" THEN r.v.m ELSE EmptyMap
        member(k) == IF k \in DOMAIN m /\ m[k].t = "str" THEN m[k].s ELSE ""
        mistyped == \E k \in {"error", "reason"} \cap DOMAIN m : m[k].t \notin {"str", "null"}
        failed == ~valid \/ r.v.t \notin {"obj", "null"} \/ mistyped
    IN IF failed
       THEN [kind |-> "couch", status |-> resp.status, type |-> "unknown",
             reason |-> Concat(resp.body)]
       ELSE [kind |-> "couch", status |-> resp.status, type |-> member("error"),
             reason |-> member("reason")]

\* resp.IsError()
IsError(resp) == resp.status > 399

\* Return with a transport failure turned into an Error of type unknown
ReturnWrapsTransport(resp) ==
    IF resp.transport
    THEN [kind |-> "couch", status |-> 0, type |-> "unknown", reason |-> resp.err]
    ELSE IF IsError(resp) THEN parseError(resp)
    ELSE [kind |-> "ok", status |-> resp.status, type |-> "", reason |-> ""]

\* the tail of every operation: what it returns for the executor's answer;
\* the executor's error is returned as it is
Return(resp) ==
    IF resp.transport
    THEN [kind |-> "transport", status |-> 0, type |-> "", reason |-> "", err |-> resp.err]
    ELSE IF IsError(resp) THEN parseError(resp)
    ELSE [kind |-> "ok", status |-> resp.status, type |-> "", reason |-> ""]

\* the Document codec: the Document at hand, the payload, where the payload
\* came from, the Document that was encoded, the Document before the last
\* decode, the error of the last call and the last call
VARIABLES doc, wire, wireFrom, orig, pre, derr, dop

\* the view operations: the ViewBuilder, the option struct of a caller that
\* uses none, the requests the last call handed to the HTTP executor, what
\* the last call returned, the last call and its arguments
VARIABLES vb, copts, sent, ret, vop, arg

\* builders as objects: the ViewBuilder objects made so far, the ViewOptions
\* objects by address, and the last builder call with what it returned and
\* the number of configuration calls made so far
VARIABLES vbs, heap, bcall

\* operations running at once on one Database handle: the handle, the request
\* object of each running call, where each caller is, its call, the requests
\* the HTTP executor got for the call, the executor's answer and what the
\* call returned
VARIABLES handle, reqs, pc, call, wireReqs, answer, out

\* one caller and the remote service: the documents the service keeps, the
\* caller's DesignDocument struct, the last call with its request, answer and
\* result, and the last Put that succeeded with no write after it
VARIABLES store, ddoc, sess, lastPut

\* a builder shared by two threads: the option set of the builder, where the
\* configuring thread and the executing thread are, the request the
\* executing thread is filling, and the values the option set has held
VARIABLES raceOpts, racePc, raceReq, raceHeld

dvars == <<doc, wire, wireFrom, orig, pre, derr, dop>>

vvars == <<vb, copts, sent, ret, vop, arg>>

bvars == <<vbs, heap, bcall>>

ovars == <<handle, reqs, pc, call, wireReqs, answer, out>>

svars == <<store, ddoc, sess, lastPut>>

rvars == <<raceOpts, racePc, raceReq, raceHeld>>

vars == <<dvars, vvars, bvars, ovars, svars, rvars>>

DocInit ==
    /\ doc = ZeroDocument
    /\ wire = <<>>
    /\ wireFrom = "none"
    /\ orig = ZeroDocument
    /\ pre = ZeroDocument
    /\ derr = FALSE
    /\ dop = "init"

\* a caller builds a Document value: &Document{ID: ..., Rev: ..., Data: ...}
NewDocument(d) ==
    /\ dop = "init"
    /\ doc' = d
    /\ dop' = "new"
    /\ UNCHANGED <<wire, wireFrom, orig, pre, derr>>
    /\ UNCHANGED <<vvars, bvars, ovars, svars, rvars>>

\* data, err := doc.MarshalJSON()
Marshal ==
    LET r == MarshalJSON(doc) IN
    /\ dop' = "marshal"
    /\ derr' = r.err
    /\ wire' = r.toks
    /\ wireFrom' = IF r.err THEN "none" ELSE "marshal"
    /\ orig' = doc
    /\ pre' = ZeroDocument
    /\ UNCHANGED doc
    /\ UNCHANGED <<vvars, bvars, ovars, svars, rvars>>

\* a payload arrives from the network
Receive(p) ==
    /\ wireFrom = "none"
    /\ wire' = p
    /\ wireFrom' = "network"
    /\ orig' = ZeroDocument
    /\ pre' = ZeroDocument
    /\ derr' = FALSE
    /\ dop' = "receive"
    /\ UNCHANGED doc
    /\ UNCHANGED <<vvars, bvars, ovars, svars, rvars>>

\* var doc Document: a fresh decode target
Fresh ==
    /\ dop # "fresh"
    /\ doc' = ZeroDocument
    /\ pre' = ZeroDocument
    /\ derr' = FALSE
    /\ dop' = "fresh"
    /\ UNCHANGED <<wire, wireFrom, orig>>
    /\ UNCHANGED <<vvars, bvars, ovars, svars, rvars>>

\* err := doc.UnmarshalJSON(data)
Unmarshal ==
    LET r == UnmarshalJSON(doc, wire) IN
    /\ wireFrom # "none"
    /\ pre' = doc
    /\ doc' = r.d
    /\ derr' = r.err
    /\ dop' = "unmarshal"
    /\ UNCHANGED <<wire, wireFrom, orig>>
    /\ UNCHANGED <<vvars, bvars, ovars, svars, rvars>>

DocNext ==
    \/ dop = "init" /\ \E d \in Documents : NewDocument(d)
    \/ Marshal
    \/ wireFrom = "none" /\ \E p \in Payloads : Receive(p)
    \/ Fresh
    \/ Unmarshal

(***************************************************************************)
(* The view operations.                                                    *)
(***************************************************************************)
\* no ViewBuilder has been made
NoBuilder == [none |-> TRUE]

NoArg == [designDoc |-> "", viewName |-> "", opts |-> NilOptions, keys |-> <<>>]

ViewInit ==
    /\ vb = NoBuilder
    /\ copts = NilOptions
    /\ sent = <<>>
    /\ ret = NoReturn
    /\ vop = "init"
    /\ arg = NoArg

\* a caller builds an option struct, &ViewOptions{...}, or keeps a nil one
NewOptions(opts) ==
    /\ vop = "init"
    /\ copts' = opts
    /\ vop' = "NewOptions"
    /\ UNCHANGED <<vb, sent, ret, arg>>
    /\ UNCHANGED <<dvars, bvars, ovars, svars, rvars>>

\* func (db *Database) NewViewQuery(designDoc, viewName string) *ViewBuilder
NewViewQuery(designDoc, viewName) ==
    /\ vop = "init"
    /\ vb' = [designDoc |-> designDoc, viewName |-> viewName, options |-> ZeroOptions]
    /\ vop' = "NewViewQuery"
    /\ sent' = <<>>
    /\ ret' = NoReturn
    /\ arg' = NoArg
    /\ UNCHANGED copts
    /\ UNCHANGED <<dvars, bvars, ovars, svars, rvars>>

\* a ViewBuilder setter: vb.options.<field> = value; return vb
SetOption(name, field, value) ==
    /\ vb # NoBuilder
    /\ SetCount([vb.options EXCEPT ![field] = value]) <= MaxSet
    /\ vb' = [vb EXCEPT !.options[field] = value]
    /\ vop' = name
    /\ sent' = <<>>
    /\ ret' = NoReturn
    /\ arg' = NoArg
    /\ UNCHANGED copts
    /\ UNCHANGED <<dvars, bvars, ovars, svars, rvars>>

Key(key) == SetOption("Key", "Key", key)
Keys(keys) == SetOption("Keys", "Keys", keys)
StartKey(key) == SetOption("StartKey", "StartKey", key)
EndKey(key) == SetOption("EndKey", "EndKey", key)
Limit(limit) == SetOption("Limit", "Limit", limit)
Skip(skip) == SetOption("Skip", "Skip", skip)
Descending(desc) == SetOption("Descending", "Descending", desc)
Group(group) == SetOption("Group", "Group", group)
GroupLevel(level) == SetOption("GroupLevel", "GroupLevel", level)
Reduce(reduce) == SetOption("Reduce", "Reduce", Bool(reduce))
IncludeDocs(include) == SetOption("IncludeDocs", "IncludeDocs", include)
Stale(stale) == SetOption("Stale", "Stale", stale)

\* Database.View: the request goes to the HTTP executor, whose answer resp
\* decides what is returned
DatabaseView(name, designDoc, viewName, opts, resp) ==
    /\ sent' = <<ViewRequest(designDoc, viewName, opts)>>
    /\ ret' = Return(resp)
    /\ vop' = name
    /\ arg' = [designDoc |-> designDoc, viewName |-> viewName, opts |-> opts, keys |-> <<>>]
    /\ UNCHANGED <<vb, copts>>
    /\ UNCHANGED <<dvars, bvars, ovars, svars, rvars>>

\* func (db *Database) View(ctx, designDoc, viewName string, opts *ViewOptions)
View(designDoc, viewName, resp) ==
    /\ vb = NoBuilder /\ vop # "init"
    /\ DatabaseView("View", designDoc, viewName, copts, resp)

\* func (db *Database) ViewByKey(ctx, designDoc, viewName string, key interface{})
ViewByKey(designDoc, viewName, key, resp) ==
    /\ vb = NoBuilder /\ vop # "init" /\ copts = NilOptions
    /\ DatabaseView("ViewByKey", designDoc, viewName, [ZeroOptions EXCEPT !.Key = key], resp)

\* the group levels a caller passes to ViewReduce
GroupLevels == {-1, 0, 2, MaxInt}

\* ViewReduceOptions with Group set whatever the group level is
ViewReduceOptionsAlwaysGroup(groupLevel) ==
    LET opts == [ZeroOptions EXCEPT !.Reduce = Bool(TRUE), !.Group = TRUE] IN
    IF groupLevel > 0 THEN [opts EXCEPT !.GroupLevel = groupLevel] ELSE opts

\* the option set Database.ViewReduce builds: reduce := true;
\* opts := &ViewOptions{Reduce: &reduce}; then the group level or the group flag
ViewReduceOptions(groupLevel) ==
    LET reduce == TRUE
        opts == [ZeroOptions EXCEPT !.Reduce = Bool(reduce)]
    IN IF groupLevel > 0 THEN [opts EXCEPT !.GroupLevel = groupLevel]
       ELSE [opts EXCEPT !.Group = TRUE]

\* func (db *Database) ViewReduce(ctx, designDoc, viewName string, groupLevel int)
ViewReduce(designDoc, viewName, groupLevel, resp) ==
    LET opts == ViewReduceOptions(groupLevel) IN
    /\ vb = NoBuilder /\ vop # "init" /\ copts = NilOptions
    /\ sent' = <<ViewRequest(designDoc, viewName, opts)>>
    /\ ret' = Return(resp)
    /\ vop' = "ViewReduce"
    /\ arg' = [designDoc |-> designDoc, viewName |-> viewName, opts |-> opts,
               keys |-> <<>>, groupLevel |-> groupLevel]
    /\ UNCHANGED <<vb, copts>>
    /\ UNCHANGED <<dvars, bvars, ovars, svars, rvars>>

\* Execute that hands the option set over and leaves the builder empty
ExecuteConsumes(resp) ==
    /\ vb # NoBuilder
    /\ sent' = <<ViewRequest(vb.designDoc, vb.viewName, vb.options)>>
    /\ ret' = Return(resp)
    /\ vop' = "Execute"
    /\ arg' = [designDoc |-> vb.designDoc, viewName |-> vb.viewName, opts |-> vb.options,
               keys |-> <<>>]
    /\ vb' = [vb EXCEPT !.options = ZeroOptions]
    /\ UNCHANGED copts
    /\ UNCHANGED <<dvars, bvars, ovars, svars, rvars>>

\* func (vb *ViewBuilder) Execute(ctx, db *Database)
Execute(resp) ==
    /\ vb # NoBuilder
    /\ DatabaseView("Execute", vb.designDoc, vb.viewName, vb.options, resp)

\* func (db *Database) AllDocs(ctx, opts *ViewOptions)
AllDocs(resp) ==
    /\ vb = NoBuilder /\ vop # "init"
    /\ sent' = <<AllDocsRequest(copts)>>
    /\ ret' = Return(resp)
    /\ vop' = "AllDocs"
    /\ arg' = [designDoc |-> "", viewName |-> "", opts |-> copts, keys |-> <<>>]
    /\ UNCHANGED <<vb, copts>>
    /\ UNCHANGED <<dvars, bvars, ovars, svars, rvars>>

\* func (db *Database) ViewWithKeys(ctx, designDoc, viewName string,
\* keys []interface{}, opts *ViewOptions): a body that cannot be serialized
\* makes the executor return an error without sending
ViewWithKeys(designDoc, viewName, keys, resp) ==
    /\ vb = NoBuilder /\ vop # "init"
    /\ IF Serializable(KeysBody(keys))
       THEN /\ sent' = <<ViewWithKeysRequest(designDoc, viewName, keys, copts)>>
            /\ ret' = Return(resp)
       ELSE /\ sent' = <<>>
            /\ ret' = [kind |-> "encode", status |-> 0, type |-> "", reason |-> ""]
    /\ vop' = "ViewWithKeys"
    /\ arg' = [designDoc |-> designDoc, viewName |-> viewName, opts |-> copts, keys |-> keys]
    /\ UNCHANGED <<vb, copts>>
    /\ UNCHANGED <<dvars, bvars, ovars, svars, rvars>>

ViewNext ==
    \/ vop = "init" /\ \E opts \in OptionSets : NewOptions(opts)
    \/ \E designDoc \in DesignDocs, viewName \in ViewNames : NewViewQuery(designDoc, viewName)
    \/ \E key \in KeyValues \cup {Null} : Key(key)
    \/ \E keys \in KeysLists \cup {<<>>} : Keys(keys)
    \/ \E key \in StartKeyValues \cup {Null} : StartKey(key)
    \/ \E key \in EndKeyValues \cup {Null} : EndKey(key)
    \/ \E limit \in IntValues \cup {0} : Limit(limit)
    \/ \E skip \in IntValues \cup {0} : Skip(skip)
    \/ \E desc \in BOOLEAN : Descending(desc)
    \/ \E group \in BOOLEAN : Group(group)
    \/ \E level \in IntValues \cup {0} : GroupLevel(level)
    \/ \E reduce \in BOOLEAN : Reduce(reduce)
    \/ \E include \in BOOLEAN : IncludeDocs(include)
    \/ \E stale \in {"", "ok"} : Stale(stale)
    \/ \E resp \in Responses : Execute(resp)
    \/ \E designDoc \in DesignDocs, viewName \in ViewNames, resp \in Responses :
          View(designDoc, viewName, resp)
    \/ copts = NilOptions /\ \E designDoc \in DesignDocs, viewName \in ViewNames,
                                key \in KeyValues \cup {Null}, resp \in Responses :
                                  ViewByKey(designDoc, viewName, key, resp)
    \/ copts = NilOptions /\ \E designDoc \in DesignDocs, viewName \in ViewNames,
                                groupLevel \in GroupLevels, resp \in Responses :
                                  ViewReduce(designDoc, viewName, groupLevel, resp)
    \/ \E resp \in Responses : AllDocs(resp)
    \/ \E designDoc \in DesignDocs, viewName \in ViewNames, keys \in KeysLists \cup {<<>>},
          resp \in Responses : ViewWithKeys(designDoc, viewName, keys, resp)

\* the view operations over option structs with many fields set together
EncodeNext ==
    \/ vop = "init" /\ \E opts \in CombinedOptionSets : NewOptions(opts)
    \/ \E designDoc \in DesignDocs, viewName \in ViewNames : NewViewQuery(designDoc, viewName)
    \/ \E key \in StartKeyValues \cup {Null} : StartKey(key)
    \/ \E key \in EndKeyValues \cup {Null} : EndKey(key)
    \/ \E desc \in BOOLEAN : Descending(desc)
    \/ \E resp \in Responses : Execute(resp)
    \/ \E designDoc \in DesignDocs, viewName \in ViewNames, resp \in Responses :
          View(designDoc, viewName, resp)
    \/ \E resp \in Responses : AllDocs(resp)
    \/ \E designDoc \in DesignDocs, viewName \in ViewNames, keys \in KeysLists \cup {<<>>},
          resp \in Responses : ViewWithKeys(designDoc, viewName, keys, resp)

(***************************************************************************)
(* The ViewBuilder as an object.  A builder holds a pointer to its option  *)
(* set, so builders and option sets are kept by address: vbs[b] is the     *)
(* ViewBuilder object b and heap[a] the ViewOptions object at address a.   *)
(***************************************************************************)
\* the builders made in one run
Builders == {1, 2}

BuilderViewNames == {"by", "all"}

\* the arguments the configuration calls are given, the zero value included
BuilderArgs ==
    [Key |-> {Null, Str("5")}, Keys |-> {<<>>, <<Num(5), Str("5")>>},
     StartKey |-> {Null, Num(5)}, EndKey |-> {Null, Arr(<<Str("cat"), Num(2000)>>)},
     Limit |-> {0, MaxInt}, Skip |-> {0, -1}, Descending |-> BOOLEAN, Group |-> BOOLEAN,
     GroupLevel |-> {0, 2}, Reduce |-> BOOLEAN, IncludeDocs |-> BOOLEAN,
     Stale |-> {"", "ok"}]

\* no builder call has been made
NoCall == [name |-> "none", vb |-> 0, value |-> Null, result |-> 0, n |-> 0]

BuilderInit ==
    /\ vbs = <<>>
    /\ heap = <<>>
    /\ bcall = NoCall

\* NewViewQuery that hands every builder the option set of the first one
BuilderNewShared(designDoc, viewName) ==
    /\ Len(vbs) < Cardinality(Builders)
    /\ heap' = IF heap = <<>> THEN <<ZeroOptions>> ELSE heap
    /\ vbs' = Append(vbs, [designDoc |-> designDoc, viewName |-> viewName, options |-> 1])
    /\ bcall' = [name |-> "NewViewQuery", vb |-> 0, value |-> Null, result |-> Len(vbs) + 1,
                 n |-> bcall.n]
    /\ UNCHANGED <<dvars, vvars, ovars, svars, rvars>>

\* func (db *Database) NewViewQuery(designDoc, viewName string) *ViewBuilder:
\* return &ViewBuilder{designDoc: designDoc, viewName: viewName,
\* options: &ViewOptions{}} -- a new builder with a new option set
BuilderNew(designDoc, viewName) ==
    /\ Len(vbs) < Cardinality(Builders)
    /\ heap' = Append(heap, ZeroOptions)
    /\ vbs' = Append(vbs, [designDoc |-> designDoc, viewName |-> viewName,
                           options |-> Len(heap) + 1])
    /\ bcall' = [name |-> "NewViewQuery", vb |-> 0, value |-> Null, result |-> Len(vbs) + 1,
                 n |-> bcall.n]
    /\ UNCHANGED <<dvars, vvars, ovars, svars, rvars>>

\* a configuration call on the builder b: vb.options.<field> = stored;
\* return vb.  given is the argument as a Go value.  A run makes at most
\* MaxSet configuration calls.
Configure(b, field, given, stored) ==
    /\ bcall.n < MaxSet
    /\ heap' = [heap EXCEPT ![vbs[b].options][field] = stored]
    /\ bcall' = [name |-> field, vb |-> b, value |-> given, result |-> b, n |-> bcall.n + 1]
    /\ UNCHANGED vbs
    /\ UNCHANGED <<dvars, vvars, ovars, svars, rvars>>

BuilderKey(b, key) == Configure(b, "Key", key, key)
BuilderKeys(b, keys) == Configure(b, "Keys", Arr(keys), keys)
BuilderStartKey(b, key) == Configure(b, "StartKey", key, key)
BuilderEndKey(b, key) == Configure(b, "EndKey", key, key)
BuilderLimit(b, limit) == Configure(b, "Limit", Num(limit), limit)
BuilderSkip(b, skip) == Configure(b, "Skip", Num(skip), skip)
BuilderDescending(b, desc) == Configure(b, "Descending", Bool(desc), desc)
BuilderGroup(b, group) == Configure(b, "Group", Bool(group), group)
BuilderGroupLevel(b, level) == Configure(b, "GroupLevel", Num(level), level)
BuilderReduce(b, reduce) == Configure(b, "Reduce", Bool(reduce), Bool(reduce))
BuilderIncludeDocs(b, include) == Configure(b, "IncludeDocs", Bool(include), include)
BuilderStale(b, stale) == Configure(b, "Stale", Str(stale), stale)

BuilderNext ==
    \/ \E designDoc \in DesignDocs :
          BuilderNew(designDoc, CHOOSE viewName \in BuilderViewNames :
                                   \A b \in 1..Len(vbs) : vbs[b].viewName # viewName)
    \/ \E b \in 1..Len(vbs), key \in BuilderArgs.Key : BuilderKey(b, key)
    \/ \E b \in 1..Len(vbs), keys \in BuilderArgs.Keys : BuilderKeys(b, keys)
    \/ \E b \in 1..Len(vbs), key \in BuilderArgs.StartKey : BuilderStartKey(b, key)
    \/ \E b \in 1..Len(vbs), key \in BuilderArgs.EndKey : BuilderEndKey(b, key)
    \/ \E b \in 1..Len(vbs), limit \in BuilderArgs.Limit : BuilderLimit(b, limit)
    \/ \E b \in 1..Len(vbs), skip \in BuilderArgs.Skip : BuilderSkip(b, skip)
    \/ \E b \in 1..Len(vbs), desc \in BuilderArgs.Descending : BuilderDescending(b, desc)
    \/ \E b \in 1..Len(vbs), group \in BuilderArgs.Group : BuilderGroup(b, group)
    \/ \E b \in 1..Len(vbs), level \in BuilderArgs.GroupLevel : BuilderGroupLevel(b, level)
    \/ \E b \in 1..Len(vbs), reduce \in BuilderArgs.Reduce : BuilderReduce(b, reduce)
    \/ \E b \in 1..Len(vbs), include \in BuilderArgs.IncludeDocs : BuilderIncludeDocs(b, include)
    \/ \E b \in 1..Len(vbs), stale \in BuilderArgs.Stale : BuilderStale(b, stale)

(***************************************************************************)
(* Operations running at once on one Database handle.  A call builds its   *)
(* request, hands it to the HTTP executor, and returns when the executor   *)
(* answers; calls of different callers interleave at these steps.          *)
(***************************************************************************)
Procs == {"p1", "p2"}

\* NewClient(baseURL, nil).DB(name): the configuration the calls share
TheHandle == [client |-> [baseURL |-> "http://localhost:5984"], name |-> DBName]

\* the arguments of the calls
DocIDs == {"X"}
RevArgs == {<<>>, <<"">>, <<"1-aaa">>}
DocArgs == {[ID |-> "X", Rev |-> "1-aaa", Deleted |-> FALSE, Data |-> [name |-> Str("Ann")]],
            [ID |-> "", Rev |-> "", Deleted |-> FALSE, Data |-> [age |-> Num(5)]]}
BulkArgs == {<<>>,
             <<[ID |-> "X", Rev |-> "", Deleted |-> TRUE, Data |-> EmptyMap],
               [ID |-> "", Rev |-> "", Deleted |-> FALSE, Data |-> [age |-> Num(5)]]>>}
OptionArgs == {NilOptions, [ZeroOptions EXCEPT !.Key = Str("5"), !.Limit = MaxInt],
               [ZeroOptions EXCEPT !.Descending = TRUE]}

\* what the HTTP executor answers to a call: a transport failure with its
\* error value, or a status and a body
Answers ==
    { [transport |-> TRUE, err |-> "timeout", status |-> 0, body |-> <<>>],
      [transport |-> TRUE, err |-> "canceled", status |-> 0, body |-> <<>>],
      [transport |-> FALSE, err |-> "", status |-> 200, body |-> <<"{", "}">>],
      [transport |-> FALSE, err |-> "", status |-> 404,
       body |-> <<"{", "\"error\"", ":", "\"not_found\"", ",", "\"reason\"", ":", "\"missing\"", "}">>],
      [transport |-> FALSE, err |-> "", status |-> 409,
       body |-> <<"{", "\"reason\"", ":", "\"exists\"", ",", "\"error\"", ":", "\"conflict\"", "}">>],
      [transport |-> FALSE, err |-> "", status |-> 500, body |-> <<"Internal Server Error">>],
      [transport |-> FALSE, err |-> "", status |-> 502, body |-> <<"<html>", "Bad Gateway", "</html>">>],
      [transport |-> FALSE, err |-> "", status |-> 503, body |-> <<>>],
      [transport |-> FALSE, err |-> "", status |-> 400, body |-> <<"{", "\"error\"", ":">>],
      [transport |-> FALSE, err |-> "", status |-> 500, body |-> <<"[", "\"error\"", "]">>],
      [transport |-> FALSE, err |-> "", status |-> 500, body |-> <<"{", "}">>],
      [transport |-> FALSE, err |-> "", status |-> 409,
       body |-> <<"{", "\"error\"", ":", "\"conflict\"", "}">>],
      [transport |-> FALSE, err |-> "", status |-> 400,
       body |-> <<"{", "\"error\"", ":", "5", ",", "\"reason\"", ":", "\"missing\"", "}">>] }

NoRequest == [none |-> TRUE]
NoAnswer == [none |-> TRUE]
NoOp == [op |-> "none"]

\* Database.Get: rev is variadic, and is sent when given and not empty
GetRequest(db, id, rev) ==
    Request("GET", "/" \o db.name \o "/" \o id,
            SetQueryParam(EmptyMap, Len(rev) > 0 /\ rev[1] # "", "rev", rev[1]), FALSE, <<>>)

\* Database.Put: the document is the body of a POST to the database
PutRequest(db, d) ==
    Request("POST", "/" \o db.name, EmptyMap, TRUE, MarshalJSON(d).toks)

\* Database.Update: the document is the body of a PUT to its id
UpdateRequest(db, id, d) ==
    Request("PUT", "/" \o db.name \o "/" \o id, EmptyMap, TRUE, MarshalJSON(d).toks)

\* Database.Delete: the revision is always set as a parameter
DeleteRequest(db, id, rev) ==
    Request("DELETE", "/" \o db.name \o "/" \o id, [rev |-> rev], FALSE, <<>>)

\* Database.Bulk: BulkDocs{Docs: docs} is the body; new_edits is left out
\* (omitempty) and a nil docs slice is written as null
BulkRequest(db, docs) ==
    Request("POST", "/" \o db.name \o "/_bulk_docs", EmptyMap, TRUE,
            Tokens(Obj([docs |-> IF docs = <<>> THEN Null
                                 ELSE Arr([i \in 1..Len(docs) |-> Obj(DocMap(docs[i]))])])))

\* Database.GetDesignDoc
GetDesignDocRequest(db, name) ==
    Request("GET", "/" \o db.name \o "/_design/" \o name, EmptyMap, FALSE, <<>>)

\* Database.DeleteDesignDoc
DeleteDesignDocRequest(db, name, rev) ==
    Request("DELETE", "/" \o db.name \o "/_design/" \o name, [rev |-> rev], FALSE, <<>>)

\* Database.ListDesignDocs
ListDesignDocsRequest(db) ==
    Request("GET", "/" \o db.name \o "/_all_docs",
            [startkey |-> "\"_design/\"", endkey |-> "\"_design0\""], FALSE, <<>>)

OpsInit ==
    /\ handle = TheHandle
    /\ reqs = [p \in Procs |-> NoRequest]
    /\ pc = [p \in Procs |-> "idle"]
    /\ call = [p \in Procs |-> NoOp]
    /\ wireReqs = [p \in Procs |-> <<>>]
    /\ answer = [p \in Procs |-> NoAnswer]
    /\ out = [p \in Procs |-> NoReturn]

\* one request object that every call fills and sends
SlotShared(p) == CHOOSE q \in Procs : TRUE

\* req := db.client.resty.R(): every call gets a request object of its own
Slot(p) == p

\* the first part of an operation: the request is made and filled from the
\* call's arguments and the handle's name
Begin(p, c, request) ==
    /\ pc[p] = "idle"
    /\ reqs' = [reqs EXCEPT ![Slot(p)] = request]
    /\ pc' = [pc EXCEPT ![p] = "built"]
    /\ call' = [call EXCEPT ![p] = c]
    /\ wireReqs' = [wireReqs EXCEPT ![p] = <<>>]
    /\ answer' = [answer EXCEPT ![p] = NoAnswer]
    /\ out' = [out EXCEPT ![p] = NoReturn]
    /\ UNCHANGED handle
    /\ UNCHANGED <<dvars, vvars, bvars, svars, rvars>>

\* func (db *Database) Get(ctx, id string, rev ...string)
Get(p, id, rev) == Begin(p, [op |-> "Get", id |-> id, rev |-> rev], GetRequest(handle, id, rev))

\* func (db *Database) Put(ctx, doc interface{})
Put(p, d) == Begin(p, [op |-> "Put", doc |-> d], PutRequest(handle, d))

\* func (db *Database) Update(ctx, id string, doc interface{})
Update(p, id, d) == Begin(p, [op |-> "Update", id |-> id, doc |-> d], UpdateRequest(handle, id, d))

\* func (db *Database) Delete(ctx, id, rev string)
Delete(p, id, rev) ==
    Begin(p, [op |-> "Delete", id |-> id, rev |-> rev], DeleteRequest(handle, id, rev))

\* func (db *Database) Bulk(ctx, docs []interface{})
Bulk(p, docs) == Begin(p, [op |-> "Bulk", docs |-> docs], BulkRequest(handle, docs))

\* func (db *Database) GetDesignDoc(ctx, name string)
GetDesignDoc(p, name) ==
    Begin(p, [op |-> "GetDesignDoc", name |-> name], GetDesignDocRequest(handle, name))

\* func (db *Database) DeleteDesignDoc(ctx, name, rev string)
DeleteDesignDoc(p, name, rev) ==
    Begin(p, [op |-> "DeleteDesignDoc", name |-> name, rev |-> rev],
          DeleteDesignDocRequest(handle, name, rev))

\* func (db *Database) ListDesignDocs(ctx)
ListDesignDocs(p) == Begin(p, [op |-> "ListDesignDocs"], ListDesignDocsRequest(handle))

\* Database.View, called by p
ViewOp(p, designDoc, viewName, opts) ==
    Begin(p, [op |-> "View", designDoc |-> designDoc, viewName |-> viewName, opts |-> opts],
          ViewRequest(designDoc, viewName, opts))

\* Database.AllDocs, called by p
AllDocsOp(p, opts) == Begin(p, [op |-> "AllDocs", opts |-> opts], AllDocsRequest(opts))

\* Database.ViewWithKeys, called by p
ViewWithKeysOp(p, designDoc, viewName, keys, opts) ==
    Begin(p, [op |-> "ViewWithKeys", designDoc |-> designDoc, viewName |-> viewName,
              keys |-> keys, opts |-> opts],
          ViewWithKeysRequest(designDoc, viewName, keys, opts))

\* the call hands its request to the HTTP executor: req.Get(path),
\* req.Post(path), req.Put(path) or req.Delete(path)
Send(p) ==
    /\ pc[p] = "built"
    /\ wireReqs' = [wireReqs EXCEPT ![p] = Append(wireReqs[p], reqs[Slot(p)])]
    /\ pc' = [pc EXCEPT ![p] = "waiting"]
    /\ UNCHANGED <<handle, reqs, call, answer, out>>
    /\ UNCHANGED <<dvars, vvars, bvars, svars, rvars>>

\* the executor answers and the call returns: if err != nil { return nil, err };
\* if resp.IsError() { return nil, db.client.parseError(resp) }; return result
Complete(p, resp) ==
    /\ pc[p] = "waiting"
    /\ answer' = [answer EXCEPT ![p] = resp]
    /\ out' = [out EXCEPT ![p] = Return(resp)]
    /\ pc' = [pc EXCEPT ![p] = "done"]
    /\ UNCHANGED <<handle, reqs, call, wireReqs>>
    /\ UNCHANGED <<dvars, vvars, bvars, svars, rvars>>

OpsNext ==
    \/ \E p \in Procs, id \in DocIDs, rev \in RevArgs : Get(p, id, rev)
    \/ \E p \in Procs, d \in DocArgs : Put(p, d)
    \/ \E p \in Procs, id \in DocIDs, d \in DocArgs : Update(p, id, d)
    \/ \E p \in Procs, id \in DocIDs, rev \in Revs : Delete(p, id, rev)
    \/ \E p \in Procs, docs \in BulkArgs : Bulk(p, docs)
    \/ \E p \in Procs, name \in DesignDocs : GetDesignDoc(p, name)
    \/ \E p \in Procs, name \in DesignDocs, rev \in Revs : DeleteDesignDoc(p, name, rev)
    \/ \E p \in Procs : ListDesignDocs(p)
    \/ \E p \in Procs, designDoc \in DesignDocs, viewName \in ViewNames, opts \in OptionArgs :
          ViewOp(p, designDoc, viewName, opts)
    \/ \E p \in Procs, opts \in OptionArgs : AllDocsOp(p, opts)
    \/ \E p \in Procs, designDoc \in DesignDocs, viewName \in ViewNames,
          keys \in {<<>>, <<Num(5), Str("5")>>}, opts \in OptionArgs :
          ViewWithKeysOp(p, designDoc, viewName, keys, opts)
    \/ \E p \in Procs : Send(p)
    \/ \E p \in Procs, resp \in Answers : Complete(p, resp)

(***************************************************************************)
(* One caller and the remote service.  The calls of a caller run one after *)
(* the other; each is a request, the service's answer and the decoding of  *)
(* the answer.  The service is CouchDB as the repository's integration     *)
(* tests use it: it keeps the last revision of every document, gives a     *)
(* document without an id a new id, refuses a write whose revision is not  *)
(* the current one, and answers a bulk write with one outcome per document.*)
(***************************************************************************)
\* the ids the service gives to documents that come without one
ServerIDs == <<"X", "Y">>

\* the element of a set of one element
The(S) == CHOOSE x \in S : TRUE

\* the revision the service gives a document whose revision was rev
NextRev(rev) ==
    CASE rev = "" -> "1-aaa"
      [] rev = "1-aaa" -> "2-bbb"
      [] OTHER -> "3-ccc"

\* the first id the service has not given out
FreshID(st) ==
    LET free == SelectSeq(ServerIDs, LAMBDA id : id \notin DOMAIN st) IN
    IF free = <<>> THEN "" ELSE free[1]

\* the service writes the document m under id: the revision of m must be the
\* current one (none for a new document or one that was deleted)
ServerWrite(st, id, m) ==
    LET exists == id \in DOMAIN st
        live == exists /\ "_deleted" \notin DOMAIN st[id]
        current == IF exists THEN st[id]["_rev"].s ELSE ""
        given == IF "_rev" \in DOMAIN m /\ m["_rev"].t = "str" THEN m["_rev"].s ELSE ""
        accepted == IF live THEN given = current ELSE given = ""
        rev == NextRev(current)
        stored == MapSet(MapSet(m, "_id", Str(id)), "_rev", Str(rev))
    IN IF accepted
       THEN [ok |-> TRUE, rev |-> rev, store |-> MapSet(st, id, stored)]
       ELSE [ok |-> FALSE, rev |-> "", store |-> st]

\* an answer of the service
Answer(status, v) == [transport |-> FALSE, err |-> "", status |-> status, body |-> Tokens(v)]

ErrorBody(kind, reason) == Obj([error |-> Str(kind), reason |-> Str(reason)])

WrittenBody(id, rev) == Obj([ok |-> Bool(TRUE), id |-> Str(id), rev |-> Str(rev)])

\* the answer to the write of one document, and the store afterwards
ServeWrite(st, id, m) ==
    The({IF w.ok THEN [resp |-> Answer(201, WrittenBody(id, w.rev)), store |-> w.store]
         ELSE [resp |-> Answer(409, ErrorBody("conflict", "Document update conflict.")),
               store |-> st] : w \in {ServerWrite(st, id, m)}})

RECURSIVE ServeBulk(_, _, _, _)
\* the service writes the documents of a bulk request in order and collects
\* one outcome per document
ServeBulk(st, docs, i, acc) ==
    IF i > Len(docs) THEN [resp |-> Answer(201, Arr(acc)), store |-> st]
    ELSE LET m == docs[i].m
             id == IF "_id" \in DOMAIN m THEN m["_id"].s ELSE FreshID(st)
             outcome(w) == IF w.ok THEN WrittenBody(id, w.rev)
                           ELSE Obj([id |-> Str(id), error |-> Str("conflict"),
                                     reason |-> Str("Document update conflict.")])
         IN The({ServeBulk(w.store, docs, i + 1, Append(acc, outcome(w))) :
                   w \in {ServerWrite(st, id, m)}})

\* the ids a request path may name
PathIDs == {"X", "Y", "_design/dd", "_design/by"}

\* the service's answers to a request and the store after each: the answer
\* is decided by the method, the path, the parameters and the body
ServeParsed(st, req, parsed) ==
    LET db == "/" \o DBName
        named == {id \in PathIDs : req.path = db \o "/" \o id}
        id == IF named = {} THEN "" ELSE CHOOSE x \in named : TRUE
        m == IF parsed.ok /\ parsed.v.t = "obj" THEN parsed.v.m ELSE EmptyMap
        missing == Answer(404, ErrorBody("not_found", "missing"))
    IN CASE req.method = "POST" /\ req.path = db ->
              {ServeWrite(st, IF "_id" \in DOMAIN m THEN m["_id"].s ELSE FreshID(st), m)}
         [] req.method = "POST" /\ req.path = db \o "/_bulk_docs" ->
              IF "docs" \in DOMAIN m /\ m["docs"].t = "arr"
              THEN {ServeBulk(st, m["docs"].a, 1, <<>>)}
              ELSE {[resp |-> Answer(400, ErrorBody("bad_request", "Missing JSON list of 'docs'")),
                     store |-> st]}
         [] req.method = "PUT" /\ id # "" ->
              \* a body whose _id is not the id of the path is refused, or is
              \* written under the id of the path
              IF "_id" \in DOMAIN m /\ m["_id"] # Str(id)
              THEN {[resp |-> Answer(400, ErrorBody("bad_request", "Document ID must match the ID in the URL")),
                     store |-> st],
                    ServeWrite(st, id, m)}
              ELSE {ServeWrite(st, id, m)}
         [] req.method = "GET" /\ id # "" ->
              IF id \in DOMAIN st /\ "_deleted" \notin DOMAIN st[id]
                 /\ ("rev" \in DOMAIN req.query => req.query["rev"] = st[id]["_rev"].s)
              THEN {[resp |-> Answer(200, Obj(st[id])), store |-> st]}
              ELSE {[resp |-> missing, store |-> st]}
         [] req.method = "DELETE" /\ id # "" ->
              IF id \in DOMAIN st /\ "_deleted" \notin DOMAIN st[id]
              THEN {ServeWrite(st, id, [_rev |-> Str(req.query["rev"]), _deleted |-> Bool(TRUE)])}
              ELSE {[resp |-> missing, store |-> st]}
         [] OTHER -> {[resp |-> missing, store |-> st]}

\* the service reads the body of the request and answers
Serve(st, req) == UNION {ServeParsed(st, req, parsed) : parsed \in {ParseValue(req.body, 1)}}

\* the documents the caller puts: &Document{...} with and without an id and
\* a revision
SessionDocs ==
    {[ID |-> "", Rev |-> "", Deleted |-> FALSE, Data |-> [name |-> Str("Ann")]],
     [ID |-> "X", Rev |-> "", Deleted |-> FALSE,
      Data |-> [name |-> Arr(<<Str("cat"), Num(0)>>), age |-> Num(5)]],
     [ID |-> "X", Rev |-> "1-aaa", Deleted |-> FALSE, Data |-> [age |-> Null]]}

\* the document lists the caller writes in bulk: a nil list, and a list that
\* writes X anew, writes a document without an id and deletes X once more
SessionBulks ==
    {<<>>,
     <<[ID |-> "X", Rev |-> "", Deleted |-> FALSE, Data |-> [age |-> Num(5)]],
       [ID |-> "", Rev |-> "", Deleted |-> FALSE, Data |-> [name |-> Str("Ann")]],
       [ID |-> "X", Rev |-> "", Deleted |-> TRUE, Data |-> EmptyMap]>>}

\* type DesignDocument struct, with the fields the model gives a value; Views
\* maps a view name to its View{Map, Reduce}
DesignDocuments ==
    [ID : {"", "_design/by"}, Rev : {""}, Language : {"", "erlang"},
     Views : {[by |-> [Map |-> "fn", Reduce |-> ""]]}]

\* no DesignDocument has been built
NoDesignDoc == [none |-> TRUE]

\* json.Marshal(designDoc): _id, _rev, language and views, each left out when
\* empty (omitempty); a View is written with its map, and with its reduce when
\* that is not empty
DesignDocMap(dd) ==
    LET view(v) == Obj(IF v.Reduce # "" THEN [map |-> Str(v.Map), reduce |-> Str(v.Reduce)]
                       ELSE [map |-> Str(v.Map)])
        m1 == IF dd.ID # "" THEN [_id |-> Str(dd.ID)] ELSE EmptyMap
        m2 == IF dd.Rev # "" THEN MapSet(m1, "_rev", Str(dd.Rev)) ELSE m1
        m3 == IF dd.Language # "" THEN MapSet(m2, "language", Str(dd.Language)) ELSE m2
        m4 == IF DOMAIN dd.Views # {}
              THEN MapSet(m3, "views", Obj([n \in DOMAIN dd.Views |-> view(dd.Views[n])]))
              ELSE m3
    IN m4

\* PutDesignDoc without the defaults: the design document goes out as it came
PutDesignDocNoDefaults(name, dd) == dd

\* PutDesignDoc, the defaults: if designDoc.ID == "" { designDoc.ID =
\* "_design/" + name }; if designDoc.Language == "" { designDoc.Language =
\* "javascript" } -- the caller's struct is written
PutDesignDocDefaults(name, dd) ==
    LET d1 == IF dd.ID = "" THEN [dd EXCEPT !.ID = "_design/" \o name] ELSE dd
        d2 == IF d1.Language = "" THEN [d1 EXCEPT !.Language = "javascript"] ELSE d1
    IN d2

\* Database.PutDesignDoc: the design document, after the defaults, is the
\* body of a PUT to /{db}/_design/{name}
PutDesignDocRequest(db, name, dd) ==
    Request("PUT", "/" \o db.name \o "/_design/" \o name, EmptyMap, TRUE,
            Tokens(Obj(DesignDocMap(PutDesignDocDefaults(name, dd)))))

\* json.Unmarshal of a body into a struct whose fields named in strs are
\* strings: the members by name, "" for a missing or null member; a body that
\* is no JSON, is neither an object nor null, or has a member of another type
\* is an error
DecodeParsed(r, body, strs) ==
    LET valid == r.ok /\ r.next = Len(body) + 1
        m == IF valid /\ r.v.t = "obj" THEN r.v.m ELSE EmptyMap
        mistyped == \E k \in strs \cap DOMAIN m : m[k].t \notin {"str", "null"}
    IN [err |-> ~valid \/ r.v.t \notin {"obj", "null"} \/ mistyped,
        m |-> m,
        s |-> [k \in strs |-> IF k \in DOMAIN m /\ m[k].t = "str" THEN m[k].s ELSE ""]]

\* json.Unmarshal(body, &struct)
DecodeStruct(body, strs) == The({DecodeParsed(r, body, strs) : r \in {ParseValue(body, 1)}})

\* Put, Update and PutDesignDoc returning a Document with the id only
WriteResultWithoutRev(body) ==
    LET u == DecodeStruct(body, {"id", "rev"}) IN
    [err |-> u.err \/ ("ok" \in DOMAIN u.m /\ u.m["ok"].t \notin {"bool", "null"}),
     v |-> [ID |-> u.s["id"], Rev |-> "", Deleted |-> FALSE, Data |-> EmptyMap]]

\* Put, Update and PutDesignDoc: var result struct { ID `json:"id"`; Rev
\* `json:"rev"`; OK `json:"ok"` }, then &Document{ID: result.ID, Rev: result.Rev}
WriteResult(body) ==
    The({[err |-> u.err \/ ("ok" \in DOMAIN u.m /\ u.m["ok"].t \notin {"bool", "null"}),
          v |-> [ID |-> u.s["id"], Rev |-> u.s["rev"], Deleted |-> FALSE, Data |-> EmptyMap]] :
           u \in {DecodeStruct(body, {"id", "rev"})}})

\* Get: var doc Document; SetResult(&doc) -- the body goes to Document.UnmarshalJSON
GetResult(body) ==
    The({[err |-> u.err, v |-> u.d] : u \in {UnmarshalJSON(ZeroDocument, body)}})

\* Delete returns no value
NoResult(body) == [err |-> FALSE, v |-> Null]

\* Bulk failing as a whole when one of the outcomes carries an error
BulkResultsFailOnItemError(body) ==
    LET r == ParseValue(body, 1)
        valid == r.ok /\ r.next = Len(body) + 1
        a == IF valid /\ r.v.t = "arr" THEN r.v.a ELSE <<>>
        item(i) == DecodeStruct(Tokens(a[i]), {"id", "rev", "error", "reason"})
    IN [err |-> \/ ~valid \/ r.v.t \notin {"arr", "null"}
                \/ \E i \in 1..Len(a) : item(i).err \/ item(i).s["error"] # "",
        v |-> [i \in 1..Len(a) |->
                 [ID |-> item(i).s["id"], Rev |-> item(i).s["rev"],
                  Error |-> item(i).s["error"], Reason |-> item(i).s["reason"]]]]

\* Bulk: var results []BulkResult; SetResult(&results) -- an array of
\* objects, each decoded into BulkResult{ID, Rev, Error, Reason}, in order
BulkParsed(r, body) ==
    LET valid == r.ok /\ r.next = Len(body) + 1
        a == IF valid /\ r.v.t = "arr" THEN r.v.a ELSE <<>>
    IN The({[err |-> \/ ~valid \/ r.v.t \notin {"arr", "null"}
                     \/ \E i \in 1..Len(a) : item[i].err,
             v |-> [i \in 1..Len(a) |->
                      [ID |-> item[i].s["id"], Rev |-> item[i].s["rev"],
                       Error |-> item[i].s["error"], Reason |-> item[i].s["reason"]]]] :
              item \in {[i \in 1..Len(a) |->
                           DecodeStruct(Tokens(a[i]), {"id", "rev", "error", "reason"})]}})

\* Bulk: the body is decoded once, into results
BulkResults(body) == The({BulkParsed(r, body) : r \in {ParseValue(body, 1)}})

\* GetDesignDoc: var designDoc DesignDocument; SetResult(&designDoc)
DesignDocDecoded(u) ==
    LET vs == IF "views" \in DOMAIN u.m /\ u.m["views"].t = "obj" THEN u.m["views"].m
              ELSE EmptyMap
        view(n) == DecodeStruct(Tokens(vs[n]), {"map", "reduce"})
    IN [err |-> \/ u.err
                \/ "views" \in DOMAIN u.m /\ u.m["views"].t \notin {"obj", "null"}
                \/ \E n \in DOMAIN vs : view(n).err,
        v |-> [ID |-> u.s["_id"], Rev |-> u.s["_rev"], Language |-> u.s["language"],
               Views |-> [n \in DOMAIN vs |->
                            [Map |-> view(n).s["map"], Reduce |-> view(n).s["reduce"]]]]]

\* GetDesignDoc: the body is decoded once, into designDoc
DesignDocResult(body) ==
    The({DesignDocDecoded(u) : u \in {DecodeStruct(body, {"_id", "_rev", "language"})}})

\* the result each operation decodes a success body into
DecodeResult(op, body) ==
    CASE op \in {"Put", "PutDesignDoc"} -> WriteResult(body)
      [] op = "Get" -> GetResult(body)
      [] op = "Delete" -> NoResult(body)
      [] op = "Bulk" -> BulkResults(body)
      [] op = "GetDesignDoc" -> DesignDocResult(body)

NoSession == [call |-> NoOp, n |-> 0]
NoPut == [valid |-> FALSE]

SessionInit ==
    /\ store = EmptyMap
    /\ ddoc = NoDesignDoc
    /\ sess = NoSession
    /\ lastPut = NoPut

\* a call from the request to the return: the executor fails, or the service
\* answers; then if err != nil { return nil, err }; if resp.IsError()
\* { return nil, db.client.parseError(resp) }; return the decoded result.  A
\* success body that cannot be decoded is the executor's error.
Exchange(c, request) ==
    /\ sess.n < MaxCalls
    /\ \E rq \in {request} :
       \E o \in Serve(store, rq)
                 \cup {[resp |-> r, store |-> store] : r \in {a \in Responses : a.transport}} :
       \E dec \in {DecodeResult(c.op, o.resp.body)} :
         LET resp == o.resp
             returned == IF ~resp.transport /\ ~IsError(resp) /\ dec.err
                         THEN [kind |-> "decode", status |-> resp.status, type |-> "",
                               reason |-> ""]
                         ELSE Return(resp)
         IN /\ store' = o.store
            /\ sess' = [call |-> c, n |-> sess.n + 1, request |-> rq, answer |-> resp,
                        ret |-> returned,
                        value |-> IF returned.kind = "ok" THEN dec.v ELSE Null]

\* a caller builds a design document: &DesignDocument{...}
NewDesignDocument(dd) ==
    /\ ddoc = NoDesignDoc
    /\ ddoc' = dd
    /\ UNCHANGED <<store, sess, lastPut>>
    /\ UNCHANGED <<dvars, vvars, bvars, ovars, rvars>>

\* Database.Put, from the call to the return
SessionPut(d) ==
    /\ d.ID = "" => FreshID(store) # ""
    /\ Exchange([op |-> "Put", doc |-> d], PutRequest(handle, d))
    /\ lastPut' = IF sess'.ret.kind = "ok"
                  THEN [valid |-> TRUE, doc |-> d, id |-> sess'.value.ID, rev |-> sess'.value.Rev]
                  ELSE NoPut
    /\ UNCHANGED ddoc
    /\ UNCHANGED <<dvars, vvars, bvars, ovars, rvars>>

\* Database.Get, from the call to the return
SessionGet(id, rev) ==
    /\ Exchange([op |-> "Get", id |-> id, rev |-> rev], GetRequest(handle, id, rev))
    /\ UNCHANGED <<ddoc, lastPut>>
    /\ UNCHANGED <<dvars, vvars, bvars, ovars, rvars>>

\* Database.Delete, from the call to the return
SessionDelete(id, rev) ==
    /\ Exchange([op |-> "Delete", id |-> id, rev |-> rev], DeleteRequest(handle, id, rev))
    /\ lastPut' = NoPut
    /\ UNCHANGED ddoc
    /\ UNCHANGED <<dvars, vvars, bvars, ovars, rvars>>

\* Database.Bulk, from the call to the return
SessionBulk(docs) ==
    /\ FreshID(store) # ""
    /\ Exchange([op |-> "Bulk", docs |-> docs], BulkRequest(handle, docs))
    /\ lastPut' = NoPut
    /\ UNCHANGED ddoc
    /\ UNCHANGED <<dvars, vvars, bvars, ovars, rvars>>

\* Database.PutDesignDoc, from the call to the return; designDoc is the
\* caller's struct, which the defaults are written to
SessionPutDesignDoc(name) ==
    /\ ddoc # NoDesignDoc
    /\ Exchange([op |-> "PutDesignDoc", name |-> name, designDoc |-> ddoc],
                PutDesignDocRequest(handle, name, ddoc))
    /\ ddoc' = PutDesignDocDefaults(name, ddoc)
    /\ lastPut' = NoPut
    /\ UNCHANGED <<dvars, vvars, bvars, ovars, rvars>>

\* Database.GetDesignDoc, from the call to the return
SessionGetDesignDoc(name) ==
    /\ Exchange([op |-> "GetDesignDoc", name |-> name], GetDesignDocRequest(handle, name))
    /\ UNCHANGED <<ddoc, lastPut>>
    /\ UNCHANGED <<dvars, vvars, bvars, ovars, rvars>>

SessionNext ==
    \/ \E dd \in DesignDocuments : NewDesignDocument(dd)
    \/ \E d \in SessionDocs : SessionPut(d)
    \/ \E id \in DocIDs : SessionGet(id, <<>>)
    \/ \E id \in DocIDs : SessionDelete(id, "1-aaa")
    \/ \E docs \in SessionBulks : SessionBulk(docs)
    \/ \E name \in DesignDocs : SessionPutDesignDoc(name)
    \/ \E name \in DesignDocs : SessionGetDesignDoc(name)

(***************************************************************************)
(* A builder shared by two threads.                                        *)
(***************************************************************************)
\* the fields of ViewOptions in the order View tests them
ViewFields ==
    <<"Key", "Keys", "StartKey", "EndKey", "StartKeyDocID", "EndKeyDocID", "Limit", "Skip",
      "Descending", "InclusiveEnd", "Group", "GroupLevel", "Reduce", "IncludeDocs",
      "UpdateSeq", "Conflicts", "Attachments", "AttEncodingInfo", "Stale", "Update">>

\* the fields of type interface{}: two words, written and read word by word
InterfaceFields == {"Key", "StartKey", "EndKey"}

\* the text an if-block of View writes for the value used of the field f
FieldText(f, used) ==
    CASE f \in InterfaceFields -> MarshalText(used)
      [] f = "Keys" -> MarshalText(Arr(used))
      [] f \in {"Limit", "Skip", "GroupLevel"} -> Itoa(used)
      [] f = "Reduce" -> IF used = Bool(TRUE) THEN "true" ELSE "false"
      [] f \in {"StartKeyDocID", "EndKeyDocID", "Stale", "Update"} -> used
      [] OTHER -> "true"

\* an if-block of View that writes startkey along with endkey
FieldQueryBothEnds(f, tested, used) ==
    LET q == ViewQuery([ZeroOptions EXCEPT ![f] = tested]) IN
    IF f = "EndKey" /\ q # EmptyMap
    THEN [startkey |-> FieldText(f, used), endkey |-> FieldText(f, used)]
    ELSE [name \in DOMAIN q |-> FieldText(f, used)]

\* one if-block of View, if opts.F <test> { q.Set(name, text(opts.F)) }: the
\* field is read once for the test and once more for the text
FieldQuery(f, tested, used) ==
    LET q == ViewQuery([ZeroOptions EXCEPT ![f] = tested]) IN
    [name \in DOMAIN q |-> FieldText(f, used)]

\* the parameters of q with those of p set
SetAll(q, p) ==
    [name \in DOMAIN q \cup DOMAIN p |-> IF name \in DOMAIN p THEN p[name] ELSE q[name]]

\* the values the field f has held
HeldValues(f) == {o[f] : o \in raceHeld}

\* View has tested every field and the request is with the HTTP executor
RaceSent == Len(ViewFields) + 1

\* View has stopped with a panic
RacePanicked == Len(ViewFields) + 2

RaceInit ==
    /\ raceOpts = ZeroOptions
    /\ racePc = [config |-> 0, exec |-> 0, stale |-> FALSE]
    /\ raceReq = EmptyMap
    /\ raceHeld = {ZeroOptions}

\* the configuring thread calls a setter of the shared builder:
\* vb.options.<field> = value, with no lock held
RaceConfigure(field, value) ==
    /\ racePc.config < MaxSet
    /\ raceOpts' = [raceOpts EXCEPT ![field] = value]
    /\ raceHeld' = raceHeld \cup {raceOpts'}
    /\ racePc' = [racePc EXCEPT !.config = @ + 1]
    /\ UNCHANGED raceReq
    /\ UNCHANGED <<dvars, vvars, bvars, ovars, svars>>

RaceStartKey(key) == RaceConfigure("StartKey", key)
RaceEndKey(key) == RaceConfigure("EndKey", key)
RaceLimit(limit) == RaceConfigure("Limit", limit)

\* the executing thread calls Execute on the shared builder, which calls
\* db.View with the pointer vb.options
RaceExecute ==
    /\ racePc.exec = 0
    /\ racePc' = [racePc EXCEPT !.exec = 1]
    /\ raceReq' = EmptyMap
    /\ UNCHANGED <<raceOpts, raceHeld>>
    /\ UNCHANGED <<dvars, vvars, bvars, ovars, svars>>

\* View runs its next if-block.  The two reads of the field are not ordered
\* with the writes of the other thread: each gives the value the field has,
\* or a value it had before (stale)
RaceViewField(tested, used) ==
    /\ racePc.exec \in 1..Len(ViewFields)
    /\ LET f == ViewFields[racePc.exec] IN
       /\ tested \in HeldValues(f) /\ used \in HeldValues(f)
       /\ ~(f = "Reduce" /\ tested # Null /\ used = Null)
       /\ raceReq' = SetAll(raceReq, FieldQuery(f, tested, used))
       /\ racePc' = [racePc EXCEPT !.exec = @ + 1,
                                   !.stale = @ \/ tested # raceOpts[f] \/ used # raceOpts[f]]
    /\ UNCHANGED <<raceOpts, raceHeld>>
    /\ UNCHANGED <<dvars, vvars, bvars, ovars, svars>>

\* View reads a field of type interface{} that the other thread has
\* written: the two words read may belong to different values, and using
\* such a value stops the program
RaceViewFieldTorn ==
    /\ racePc.exec \in 1..Len(ViewFields)
    /\ ViewFields[racePc.exec] \in InterfaceFields
    /\ Cardinality(HeldValues(ViewFields[racePc.exec])) > 1
    /\ racePc' = [racePc EXCEPT !.exec = RacePanicked]
    /\ UNCHANGED <<raceOpts, raceReq, raceHeld>>
    /\ UNCHANGED <<dvars, vvars, bvars, ovars, svars>>

RaceNext ==
    \/ \E key \in {Null, Num(5), Str("5")} : RaceStartKey(key)
    \/ \E key \in {Str("5"), Arr(<<Str("cat"), Num(2000)>>)} : RaceEndKey(key)
    \/ \E limit \in {0, MaxInt} : RaceLimit(limit)
    \/ RaceExecute
    \/ racePc.exec \in 1..Len(ViewFields)
         /\ \E tested, used \in HeldValues(ViewFields[racePc.exec]) :
               RaceViewField(tested, used)
    \/ RaceViewFieldTorn

Init == DocInit /\ ViewInit /\ BuilderInit /\ OpsInit /\ SessionInit /\ RaceInit

SpecDoc == Init /\ [][DocNext]_vars

SpecView == Init /\ [][ViewNext]_vars

SpecEncode == Init /\ [][EncodeNext]_vars

SpecBuilder == Init /\ [][BuilderNext]_vars

SpecOps == Init /\ [][OpsNext]_vars

SpecSession == Init /\ [][SessionNext]_vars

SpecRace == Init /\ [][RaceNext]_vars

(***************************************************************************)
(* Properties of the Document codec (checked under SpecDoc).               *)
(***************************************************************************)
NoReservedKeys(m) == (DOMAIN m) \cap ReservedKeys = {}

\* the payload is a JSON object: it parses to the end and its value is an object
IsJSONObject(data) ==
    LET r == ParseValue(data, 1) IN r.ok /\ r.next = Len(data) + 1 /\ r.v.t = "obj"

\* the flat mapping a payload carries
PayloadMap(data) == ParseValue(data, 1).v.m

\* C1: decoding the encoding of a Document without reserved keys in its
\* fields into a fresh Document gives back the id, the revision, the deleted
\* flag and the field mapping of the original.
C1_RoundTrip ==
    (dop = "unmarshal" /\ wireFrom = "marshal" /\ pre = ZeroDocument
       /\ NoReservedKeys(orig.Data))
    => (~derr /\ doc.ID = orig.ID /\ doc.Rev = orig.Rev
          /\ doc.Deleted = orig.Deleted /\ doc.Data = orig.Data)

C1_Witness ==
    /\ dop = "unmarshal" /\ wireFrom = "marshal" /\ pre = ZeroDocument
    /\ orig.ID = "X" /\ orig.Rev = "" /\ orig.Deleted
    /\ DOMAIN orig.Data = {"name", "age"}
    /\ orig.Data["age"].t = "arr"
    /\ doc = orig

\* C2: when the fields hold a reserved key, the encoded value of that key
\* comes from the Document's attribute and never from the fields: the key
\* carries the attribute when the attribute is set and is absent otherwise.
C2_ReservedKeyPriority ==
    (dop = "marshal" /\ ~derr)
    => LET m == PayloadMap(wire) IN
       /\ "_id" \in DOMAIN orig.Data
            => IF orig.ID # "" THEN "_id" \in DOMAIN m /\ m["_id"] = Str(orig.ID)
               ELSE "_id" \notin DOMAIN m
       /\ "_rev" \in DOMAIN orig.Data
            => IF orig.Rev # "" THEN "_rev" \in DOMAIN m /\ m["_rev"] = Str(orig.Rev)
               ELSE "_rev" \notin DOMAIN m
       /\ "_deleted" \in DOMAIN orig.Data
            => IF orig.Deleted THEN "_deleted" \in DOMAIN m /\ m["_deleted"] = Bool(TRUE)
               ELSE "_deleted" \notin DOMAIN m

\* C3: after a successful decode the fields hold no reserved key; a reserved
\* key of the right type is in its attribute, one of the wrong type is
\* dropped without an error and the attribute keeps its value.
C3_NoReservedKeysAfterDecode ==
    (dop = "unmarshal" /\ IsJSONObject(wire))
    => LET m == PayloadMap(wire)
           typed(k, ty) == k \in DOMAIN m /\ m[k].t = ty
       IN /\ ~derr
          /\ NoReservedKeys(doc.Data)
          /\ \A k \in (DOMAIN m) \ ReservedKeys : k \in DOMAIN doc.Data /\ doc.Data[k] = m[k]
          /\ typed("_id", "str") => doc.ID = m["_id"].s
          /\ typed("_rev", "str") => doc.Rev = m["_rev"].s
          /\ typed("_deleted", "bool") => doc.Deleted = m["_deleted"].b
          /\ ("_id" \in DOMAIN m /\ ~typed("_id", "str")) => doc.ID = pre.ID
          /\ ("_rev" \in DOMAIN m /\ ~typed("_rev", "str")) => doc.Rev = pre.Rev
          /\ ("_deleted" \in DOMAIN m /\ ~typed("_deleted", "bool")) => doc.Deleted = pre.Deleted

C3_Witness ==
    /\ dop = "unmarshal" /\ ~derr /\ IsJSONObject(wire)
    /\ {"_id", "_deleted"} \subseteq DOMAIN PayloadMap(wire)
    /\ PayloadMap(wire)["_id"].t = "num"
    /\ PayloadMap(wire)["_deleted"].t = "str"
    /\ pre.ID = "X" /\ doc.ID = "X"
    /\ NoReservedKeys(doc.Data) /\ DOMAIN doc.Data = {"name"}

\* C4 as claimed: decoding a payload that is not a valid JSON object returns
\* an error and leaves the id, the revision, the deleted flag and the fields
\* of the target as they were.
C4_MalformedRejected ==
    (dop = "unmarshal" /\ ~IsJSONObject(wire)) => (derr /\ doc = pre)

\* C4 as amended: a payload that is not valid JSON, or whose top-level value
\* is an array, a string, a number or a boolean, returns an error and leaves
\* the target as it was; the literal null is accepted without an error,
\* empties the fields and keeps the id, the revision and the deleted flag.
C4_MalformedRejectedExceptNull ==
    (dop = "unmarshal" /\ ~IsJSONObject(wire))
    => IF wire = <<"null">>
       THEN ~derr /\ doc = [pre EXCEPT !.Data = EmptyMap]
       ELSE derr /\ doc = pre

C4_Witness ==
    /\ dop = "unmarshal" /\ derr
    /\ wire = <<"{", "\"name\"", ":", "\"Ann\"", ",", "}">>
    /\ pre.ID = "X" /\ pre.Deleted /\ DOMAIN pre.Data = {"name", "_id"}
    /\ doc = pre

\* C5: the encoding of a Document whose fields hold no reserved key is one
\* flat mapping whose keys are the keys of the fields, plus _id iff the id is
\* non-empty, _rev iff the revision is non-empty and _deleted iff deleted is
\* true; every entry of the fields is in it with its value.
C5_EncodedKeySet ==
    (dop = "marshal" /\ NoReservedKeys(orig.Data))
    => /\ ~derr
       /\ IsJSONObject(wire)
       /\ LET m == PayloadMap(wire) IN
          /\ DOMAIN m = (DOMAIN orig.Data)
                          \cup (IF orig.ID # "" THEN {"_id"} ELSE {})
                          \cup (IF orig.Rev # "" THEN {"_rev"} ELSE {})
                          \cup (IF orig.Deleted THEN {"_deleted"} ELSE {})
          /\ \A k \in DOMAIN orig.Data : m[k] = orig.Data[k]

C5_Witness ==
    /\ dop = "marshal" /\ ~derr
    /\ orig.ID = "" /\ orig.Rev = "1-aaa" /\ orig.Deleted
    /\ DOMAIN orig.Data = {"name", "age"}
    /\ DOMAIN PayloadMap(wire) = {"name", "age", "_rev", "_deleted"}

(***************************************************************************)
(* Properties of the view operations (checked under SpecView).             *)
(***************************************************************************)
\* the last call went through Database.View with a non-nil option set
ViewCalled == vop \in {"View", "ViewByKey", "Execute"} /\ arg.opts # NilOptions

\* the JSON text of the key values of the model, written out
ExpectedKeyText(v) ==
    CASE v = Str("5") -> "\"5\""
      [] v = Num(5) -> "5"
      [] v = Bool(TRUE) -> "true"
      [] v = Arr(<<Str("5")>>) -> "[\"5\"]"
      [] v = Arr(<<Str("cat"), Num(0)>>) -> "[\"cat\",0]"
      [] v = Arr(<<Str("cat"), Num(2000)>>) -> "[\"cat\",2000]"

\* the JSON text of the key lists of the model, written out
ExpectedKeysText(keys) ==
    CASE keys = <<Num(5), Str("5"), Arr(<<Str("cat"), Num(0)>>)>> -> "[5,\"5\",[\"cat\",0]]"

\* the body {"keys": [...]} of the key lists of the model, token by token
ExpectedKeysBody(keys) ==
    CASE keys = <<>> -> <<"{", "\"keys\"", ":", "null", "}">>
      [] keys = <<Num(5), Str("5"), Arr(<<Str("cat"), Num(0)>>)>> ->
           <<"{", "\"keys\"", ":", "[", "5", ",", "\"5\"", ",",
             "[", "\"cat\"", ",", "0", "]", "]", "}">>

KeyParams == {<<"Key", "key">>, <<"StartKey", "startkey">>, <<"EndKey", "endkey">>}

RangeParams == {<<"StartKey", "startkey">>, <<"EndKey", "endkey">>}

\* the query parameter p carries the JSON text of the field f of the options
CarriesJSON(q, opts, f, p) ==
    (opts[f] # Null /\ Serializable(opts[f]))
    => /\ p \in DOMAIN q
       /\ q[p] = ExpectedKeyText(opts[f])
       /\ \A other \in KeyValues :
            (Serializable(other) /\ other # opts[f]) => MarshalText(other) # q[p]

\* C6: View sends key, startkey and endkey as the JSON text of the value
\* (strings quoted, numbers and booleans bare, arrays in element order), so
\* keys that differ in type or value give different parameter values.
C6_KeyTypeFidelity ==
    ViewCalled
    => /\ Len(sent) = 1
       /\ \A fp \in KeyParams : CarriesJSON(sent[1].query, arg.opts, fp[1], fp[2])

C6_Witness ==
    /\ vop = "View"
    /\ arg.opts # NilOptions
    /\ arg.opts.StartKey = Arr(<<Str("cat"), Num(0)>>)
    /\ arg.opts.EndKey = Arr(<<Str("cat"), Num(2000)>>)
    /\ Len(sent) = 1
    /\ sent[1].query = [startkey |-> "[\"cat\",0]", endkey |-> "[\"cat\",2000]"]

\* C7: every operation that sends a start key or an end key, AllDocs
\* included, sends it as the JSON text that View sends.
C7_AllDocsKeysAsJSON ==
    ((ViewCalled \/ vop = "AllDocs") /\ arg.opts # NilOptions)
    => /\ Len(sent) = 1
       /\ \A fp \in RangeParams : CarriesJSON(sent[1].query, arg.opts, fp[1], fp[2])

C9_SingleKeyIsGet ==
    (ViewCalled /\ arg.opts.Key # Null /\ Len(arg.opts.Keys) = 0)
    => /\ Len(sent) = 1
       /\ sent[1].method = "GET"
       /\ ~sent[1].hasBody
       /\ sent[1].body = <<>>
       /\ "keys" \notin DOMAIN sent[1].query

C9_Witness ==
    /\ vop = "ViewByKey"
    /\ arg.opts.Key = Arr(<<Str("5")>>)
    /\ Len(sent) = 1
    /\ sent[1].method = "GET" /\ ~sent[1].hasBody
    /\ sent[1].query = [key |-> "[\"5\"]"]

\* a key value of the option set cannot be serialized
HasUnserializableKey(opts) ==
    \/ ~Serializable(opts.Key)
    \/ ~Serializable(opts.StartKey)
    \/ ~Serializable(opts.EndKey)
    \/ ~Serializable(Arr(opts.Keys))

\* C10: when a key value of the option set cannot be serialized, the view
\* operation fails with an encode error and hands no request to the HTTP
\* executor.
C10_EncodeErrorBeforeRequest ==
    (ViewCalled /\ HasUnserializableKey(arg.opts))
    => (sent = <<>> /\ ret.kind = "encode")

\* the query parameter that belongs to each field of ViewOptions
ParamOf ==
    [Key |-> "key", Keys |-> "keys", StartKey |-> "startkey", EndKey |-> "endkey",
     StartKeyDocID |-> "startkey_docid", EndKeyDocID |-> "endkey_docid",
     Limit |-> "limit", Skip |-> "skip", Descending |-> "descending",
     InclusiveEnd |-> "inclusive_end", Group |-> "group", GroupLevel |-> "group_level",
     Reduce |-> "reduce", IncludeDocs |-> "include_docs", UpdateSeq |-> "update_seq",
     Conflicts |-> "conflicts", Attachments |-> "attachments",
     AttEncodingInfo |-> "att_encoding_info", Stale |-> "stale", Update |-> "update"]

IntFields == {"Limit", "Skip", "GroupLevel"}

FlagFields == {"Descending", "InclusiveEnd", "Group", "IncludeDocs", "UpdateSeq",
               "Conflicts", "Attachments", "AttEncodingInfo"}

\* the last call went through Database.View, with a nil option set or not
ThroughView == vop \in {"View", "ViewByKey", "Execute", "ViewReduce"}

\* the decimal text of a number below one hundred, digit by digit
DigitChars == <<"0", "1", "2", "3", "4", "5", "6", "7", "8", "9">>
Decimal(n) == IF n < 10 THEN DigitChars[n + 1]
              ELSE DigitChars[(n \div 10) + 1] \o DigitChars[(n % 10) + 1]

\* C11: View transmits a query parameter only for an option field that holds
\* a non-default value (a non-nil key, a non-empty keys list, a non-empty
\* string, a positive integer, a true flag, a set reduce); stale and update
\* go out verbatim; an all-default option set and a nil option set give no
\* query parameter at all.
C11_OnlyNonDefaultSent ==
    ThroughView
    => /\ Len(sent) = 1
       /\ LET q == sent[1].query
              opts == arg.opts
          IN IF opts = NilOptions THEN q = EmptyMap
             ELSE /\ DOMAIN q \subseteq {ParamOf[f] : f \in DOMAIN ParamOf}
                  /\ \A f \in DOMAIN ParamOf :
                       ParamOf[f] \in DOMAIN q
                       => /\ opts[f] # ZeroOptions[f]
                          /\ f \in IntFields => opts[f] > 0
                  /\ "stale" \in DOMAIN q => q["stale"] = opts.Stale
                  /\ "update" \in DOMAIN q => q["update"] = opts.Update
                  /\ opts = ZeroOptions => q = EmptyMap

C11_Witness ==
    /\ vop = "View"
    /\ arg.opts # NilOptions
    /\ arg.opts.Update = "lazy" /\ arg.opts.Skip = -1
    /\ Len(sent) = 1
    /\ sent[1].query = [update |-> "lazy"]

\* the option fields each operation has a query parameter for
Supported(op) ==
    CASE op = "AllDocs" -> {"IncludeDocs", "Limit", "Skip", "Descending"}
      [] op = "ViewWithKeys" -> {"IncludeDocs", "Limit", "Skip", "Descending",
                                 "Group", "GroupLevel", "Reduce"}
      [] OTHER -> DOMAIN ParamOf

\* the last call is one of View, ViewWithKeys and AllDocs, it had a non-nil
\* option set and it handed over a request
OptionsEncoded ==
    /\ ThroughView \/ vop \in {"ViewWithKeys", "AllDocs"}
    /\ arg.opts # NilOptions
    /\ Len(sent) = 1

\* the integer field f and the flag field g follow the zero-value rule
ZeroValueRule(q, opts, fields) ==
    /\ \A f \in IntFields \cap fields :
         /\ ParamOf[f] \in DOMAIN q <=> opts[f] > 0
         /\ opts[f] > 0 => q[ParamOf[f]] = Decimal(opts[f])
    /\ \A f \in FlagFields \cap fields :
         /\ ParamOf[f] \in DOMAIN q <=> opts[f]
         /\ opts[f] => q[ParamOf[f]] = "true"

\* C12 as claimed: in View, ViewWithKeys and AllDocs, limit, skip and
\* group_level are sent, as decimal text, exactly when the value is greater
\* than zero, and each of the eight flags is sent exactly when it is true,
\* always as the text true.
C12_ZeroValueSuppression ==
    OptionsEncoded => ZeroValueRule(sent[1].query, arg.opts, DOMAIN ParamOf)

\* C12 as amended: each operation follows the rule for the parameters it has:
\* View for all of them, ViewWithKeys for limit, skip, group_level,
\* descending, group and include_docs, AllDocs for limit, skip, descending
\* and include_docs.  A parameter is sent as decimal text exactly when its
\* integer field is greater than zero and as the text true exactly when its
\* flag is true; a field the operation has no parameter for is never sent.
C12_ZeroValueSuppressionWhereSupported ==
    OptionsEncoded
    => /\ ZeroValueRule(sent[1].query, arg.opts, Supported(vop))
       /\ \A f \in (IntFields \cup FlagFields) \ Supported(vop) :
            ParamOf[f] \notin DOMAIN sent[1].query

C12_Witness ==
    /\ vop = "AllDocs"
    /\ arg.opts # NilOptions
    /\ arg.opts.Limit = -1 /\ arg.opts.Skip = MaxInt
    /\ Len(sent) = 1
    /\ DOMAIN sent[1].query = {"skip"}
    /\ sent[1].query["skip"] = Decimal(MaxInt)

\* C13: reduce has three states on the wire: no reduce parameter when Reduce
\* is unset, the text true when it is explicitly true and the text false when
\* it is explicitly false; so the request of a builder on which Reduce(false)
\* was called carries reduce=false and differs from the request of a builder
\* on which Reduce was never called, which carries no reduce parameter.
C13_ReduceTriState ==
    ((ThroughView \/ vop = "ViewWithKeys") /\ arg.opts # NilOptions /\ Len(sent) = 1)
    => LET q == sent[1].query IN
       /\ arg.opts.Reduce = Null => "reduce" \notin DOMAIN q
       /\ arg.opts.Reduce = Bool(TRUE) => "reduce" \in DOMAIN q /\ q["reduce"] = "true"
       /\ arg.opts.Reduce = Bool(FALSE) => "reduce" \in DOMAIN q /\ q["reduce"] = "false"
       /\ arg.opts.Reduce \in {Null, Bool(TRUE), Bool(FALSE)}

C13_Witness ==
    /\ vop = "Execute"
    /\ vb.options.Reduce = Bool(FALSE)
    /\ vb.options.Group
    /\ Len(sent) = 1
    /\ sent[1].query = [group |-> "true", reduce |-> "false"]

\* C17: ViewReduce always sends reduce=true; with a group level above zero it
\* sets GroupLevel to it and leaves Group unset, with the group level zero it
\* sets Group and leaves GroupLevel unset; exactly one of the parameters
\* group and group_level is sent.
C17_ViewReduceGrouping ==
    vop = "ViewReduce"
    => /\ Len(sent) = 1
       /\ LET q == sent[1].query
              opts == arg.opts
              level == arg.groupLevel
          IN /\ opts.Reduce = Bool(TRUE)
             /\ "reduce" \in DOMAIN q /\ q["reduce"] = "true"
             /\ level > 0 => /\ opts.GroupLevel = level /\ ~opts.Group
                             /\ "group_level" \in DOMAIN q
                             /\ q["group_level"] = Decimal(level)
                             /\ "group" \notin DOMAIN q
             /\ level = 0 => /\ opts.Group /\ opts.GroupLevel = 0
                             /\ "group" \in DOMAIN q /\ q["group"] = "true"
                             /\ "group_level" \notin DOMAIN q
             /\ ("group" \in DOMAIN q) # ("group_level" \in DOMAIN q)
             /\ DOMAIN q \subseteq {"reduce", "group", "group_level"}

C17_Witness ==
    /\ vop = "ViewReduce"
    /\ arg.groupLevel = 2
    /\ Len(sent) = 1
    /\ sent[1].method = "GET"
    /\ sent[1].query = [reduce |-> "true", group_level |-> "2"]

\* C19: the builder has a configuration method for every field of the option
\* set: whatever the builder holds, each of the twenty fields that is at its
\* default can be brought to a non-default value by a builder call.
C19_EveryFieldHasSetter ==
    (vb # NoBuilder /\ SetCount(vb.options) < MaxSet)
    => \A f \in DOMAIN ZeroOptions :
         vb.options[f] = ZeroOptions[f]
         => ENABLED (ViewNext /\ vb' # NoBuilder /\ vb'.options[f] # ZeroOptions[f])

(***************************************************************************)
(* Properties of the builder objects (checked under SpecBuilder).          *)
(***************************************************************************)
\* the option set of the builder b, given the builders and the option sets
BuilderOptions(builders, options, b) == options[builders[b].options]

\* what a configuration call stores for the argument it was given
Supplied(name, given) ==
    CASE name \in {"Limit", "Skip", "GroupLevel"} -> given.n
      [] name \in {"Descending", "Group", "IncludeDocs"} -> given.b
      [] name = "Stale" -> given.s
      [] name = "Keys" -> given.a
      [] OTHER -> given

\* one builder call: a configuration call returns the builder it was called
\* on, gives the field of its name the supplied value and leaves every other
\* field, the names of the builder and every other builder alone;
\* NewViewQuery gives a builder with an option set of its own
BuilderStep ==
    LET c == bcall' IN
    IF c.name = "NewViewQuery"
    THEN /\ c.result = Len(vbs) + 1
         /\ Len(vbs') = Len(vbs) + 1
         /\ BuilderOptions(vbs', heap', c.result) = ZeroOptions
         /\ \A b \in 1..Len(vbs) :
              /\ vbs'[b] = vbs[b]
              /\ vbs'[b].options # vbs'[c.result].options
              /\ BuilderOptions(vbs', heap', b) = BuilderOptions(vbs, heap, b)
    ELSE /\ c.vb \in 1..Len(vbs)
         /\ c.result = c.vb
         /\ vbs' = vbs
         /\ LET before == BuilderOptions(vbs, heap, c.vb)
                after == BuilderOptions(vbs', heap', c.vb)
            IN /\ after[c.name] = Supplied(c.name, c.value)
               /\ [after EXCEPT ![c.name] = before[c.name]] = before
         /\ \A b \in (1..Len(vbs)) \ {c.vb} :
              BuilderOptions(vbs', heap', b) = BuilderOptions(vbs, heap, b)

\* C18: every configuration call returns the builder it was called on and
\* changes exactly the field it names, in that builder's own option set, to
\* the supplied value; the other fields keep their values, the
\* design-document and view names never change, and no other builder's
\* option set is affected.
C18_ConfigurationFrame == [][BuilderStep]_vars

C18_Witness ==
    /\ Len(vbs) = 2
    /\ vbs[1].viewName # vbs[2].viewName
    /\ bcall.name = "Limit" /\ bcall.vb = 2 /\ bcall.result = 2 /\ bcall.value = Num(MaxInt)
    /\ heap[vbs[2].options] = [ZeroOptions EXCEPT !.Limit = MaxInt]
    /\ heap[vbs[1].options] = [ZeroOptions EXCEPT !.Reduce = Bool(FALSE)]

(***************************************************************************)
(* Properties of the operations (checked under SpecOps).                   *)
(***************************************************************************)
\* the call of p has returned for an answer with a failure status
FailureAnswered(p) == pc[p] = "done" /\ ~answer[p].transport /\ answer[p].status >= 400

\* the failure bodies of the model that are no error record, with their text
FallbackText(body) ==
    CASE body = <<"Internal Server Error">> -> "Internal Server Error"
      [] body = <<"<html>", "Bad Gateway", "</html>">> -> "<html>Bad Gateway</html>"
      [] body = <<>> -> ""
      [] body = <<"{", "\"error\"", ":">> -> "{\"error\":"
      [] body = <<"[", "\"error\"", "]">> -> "[\"error\"]"
      [] body = <<"{", "\"error\"", ":", "5", ",", "\"reason\"", ":", "\"missing\"", "}">>
           -> "{\"error\":5,\"reason\":\"missing\"}"

NoRecordBodies ==
    {<<"Internal Server Error">>, <<"<html>", "Bad Gateway", "</html>">>, <<>>,
     <<"{", "\"error\"", ":">>, <<"[", "\"error\"", "]">>}

\* the failure bodies of the model that are a full error record
RecordOf(body) ==
    CASE body = <<"{", "\"error\"", ":", "\"not_found\"", ",", "\"reason\"", ":", "\"missing\"", "}">>
           -> [error |-> "not_found", reason |-> "missing"]
      [] body = <<"{", "\"reason\"", ":", "\"exists\"", ",", "\"error\"", ":", "\"conflict\"", "}">>
           -> [error |-> "conflict", reason |-> "exists"]

RecordBodies ==
    {<<"{", "\"error\"", ":", "\"not_found\"", ",", "\"reason\"", ":", "\"missing\"", "}">>,
     <<"{", "\"reason\"", ":", "\"exists\"", ",", "\"error\"", ":", "\"conflict\"", "}">>}

\* C14: for every operation, a failure answer whose body is no error record
\* (plain text, markup, nothing, cut-off JSON, a JSON array) gives an Error of
\* type unknown whose reason is the raw text of the body and whose status
\* code is that of the answer.
C14_ErrorFallback ==
    \A p \in Procs :
      (FailureAnswered(p) /\ answer[p].body \in NoRecordBodies)
      => out[p] = [kind |-> "couch", status |-> answer[p].status, type |-> "unknown",
                   reason |-> FallbackText(answer[p].body)]

C14_Witness ==
    /\ pc["p1"] = "done" /\ call["p1"].op = "Bulk"
    /\ answer["p1"].status = 500 /\ answer["p1"].body = <<"Internal Server Error">>
    /\ out["p1"] = [kind |-> "couch", status |-> 500, type |-> "unknown",
                    reason |-> "Internal Server Error"]

\* C15: for every operation, a failure answer with the body
\* {"error": k, "reason": r} gives an Error of type k and reason r, and on
\* this path as on the fallback path the Error's status code is the status
\* code of the answer.
C15_StructuredError ==
    \A p \in Procs :
      FailureAnswered(p)
      => /\ out[p].kind = "couch"
         /\ out[p].status = answer[p].status
         /\ answer[p].body \in RecordBodies
              => /\ out[p].type = RecordOf(answer[p].body).error
                 /\ out[p].reason = RecordOf(answer[p].body).reason

C15_Witness ==
    /\ pc["p2"] = "done" /\ call["p2"].op = "Get"
    /\ answer["p2"].status = 404
    /\ out["p2"] = [kind |-> "couch", status |-> 404, type |-> "not_found",
                    reason |-> "missing"]

\* C16: when the HTTP executor reports a transport failure, the operation
\* returns the executor's error value as it is, neither a result nor an
\* Error, and the executor got the request once.
C16_TransportErrorUnchanged ==
    \A p \in Procs :
      /\ Len(wireReqs[p]) <= 1
      /\ (pc[p] = "done" /\ answer[p].transport)
         => /\ out[p].kind = "transport"
            /\ out[p].err = answer[p].err
            /\ out[p].type = "" /\ out[p].reason = "" /\ out[p].status = 0
            /\ Len(wireReqs[p]) = 1

C16_Witness ==
    /\ pc["p1"] = "done" /\ call["p1"].op = "View"
    /\ answer["p1"].transport /\ answer["p1"].err = "canceled"
    /\ out["p1"].kind = "transport" /\ out["p1"].err = "canceled"
    /\ Len(wireReqs["p1"]) = 1

\* the request an operation makes of its arguments and the name of the handle
ExpectedRequest(c) ==
    CASE c.op = "Get" -> GetRequest(TheHandle, c.id, c.rev)
      [] c.op = "Put" -> PutRequest(TheHandle, c.doc)
      [] c.op = "Update" -> UpdateRequest(TheHandle, c.id, c.doc)
      [] c.op = "Delete" -> DeleteRequest(TheHandle, c.id, c.rev)
      [] c.op = "Bulk" -> BulkRequest(TheHandle, c.docs)
      [] c.op = "GetDesignDoc" -> GetDesignDocRequest(TheHandle, c.name)
      [] c.op = "DeleteDesignDoc" -> DeleteDesignDocRequest(TheHandle, c.name, c.rev)
      [] c.op = "ListDesignDocs" -> ListDesignDocsRequest(TheHandle)
      [] c.op = "View" -> ViewRequest(c.designDoc, c.viewName, c.opts)
      [] c.op = "AllDocs" -> AllDocsRequest(c.opts)
      [] c.op = "ViewWithKeys" -> ViewWithKeysRequest(c.designDoc, c.viewName, c.keys, c.opts)

\* C20: with several operations running at once on one handle, in every
\* interleaving the request of each operation is the one its own arguments
\* give and what it returns is what its own answer gives, and the handle's
\* base address and database name are never written.
C20_OperationsIndependent ==
    /\ handle = TheHandle
    /\ \A p \in Procs :
         /\ pc[p] \in {"waiting", "done"} => wireReqs[p] = <<ExpectedRequest(call[p])>>
         /\ pc[p] = "done" => out[p] = Return(answer[p])
         /\ pc[p] # "done" => out[p] = NoReturn

C20_Witness ==
    /\ pc["p1"] = "waiting" /\ pc["p2"] = "waiting"
    /\ call["p1"].op = "Get" /\ call["p2"].op = "Put"
    /\ wireReqs["p1"] = <<[method |-> "GET", path |-> "/db/X", query |-> [rev |-> "1-aaa"],
                           hasBody |-> FALSE, body |-> <<>>]>>
    /\ wireReqs["p2"][1].method = "POST" /\ wireReqs["p2"][1].path = "/db"
    /\ wireReqs["p2"][1].body = <<"{", "\"age\"", ":", "5", "}">>

(***************************************************************************)
(* Properties of a session with the service (checked under SpecSession).   *)
(***************************************************************************)
\* the members of the object the service answered with
AnswerMembers == ParseValue(sess.answer.body, 1).v.m

\* C21: when Put succeeds and the service answers with id X and revision R,
\* Put returns a Document with id X and revision R; a Get of X that follows
\* with no write in between returns a Document with id X, revision R and
\* fields equal to the fields that were put, none of them a reserved key.
C21_CreateRead ==
    /\ (sess.call.op = "Put" /\ sess.ret.kind = "ok") =>
          /\ sess.value = [ID |-> AnswerMembers["id"].s, Rev |-> AnswerMembers["rev"].s,
                           Deleted |-> FALSE, Data |-> EmptyMap]
          /\ lastPut = [valid |-> TRUE, doc |-> sess.call.doc,
                        id |-> AnswerMembers["id"].s, rev |-> AnswerMembers["rev"].s]
    /\ (/\ sess.call.op = "Get" /\ lastPut.valid /\ sess.call.id = lastPut.id
        /\ NoReservedKeys(lastPut.doc.Data)
        /\ ~sess.answer.transport) =>
          /\ sess.ret.kind = "ok"
          /\ sess.value.ID = lastPut.id
          /\ sess.value.Rev = lastPut.rev
          /\ sess.value.Data = lastPut.doc.Data
          /\ NoReservedKeys(sess.value.Data)
          /\ ~sess.value.Deleted

\* Put({"name": "Ann"}) was answered with X and 1-aaa, and Get("X") returned
\* the document
C21_Witness ==
    /\ sess.call.op = "Get" /\ sess.call.id = "X" /\ sess.ret.kind = "ok"
    /\ lastPut.valid /\ lastPut.doc.ID = "" /\ lastPut.id = "X" /\ lastPut.rev = "1-aaa"
    /\ sess.value = [ID |-> "X", Rev |-> "1-aaa", Deleted |-> FALSE,
                     Data |-> [name |-> Str("Ann")]]

\* the string member k of the JSON value o, "" when o has no such member
Member(o, k) ==
    IF o.t = "obj" /\ k \in DOMAIN o.m /\ o.m[k].t = "str" THEN o.m[k].s ELSE ""

\* C22: whenever the service answered a bulk write with a success status,
\* Bulk returns no error and one outcome per element of the answer, in the
\* order of the answer (which is the order of the documents), also when
\* outcomes carry an error kind and a reason.
C22_BulkPerItemOutcomes ==
    (sess.call.op = "Bulk" /\ ~sess.answer.transport /\ ~IsError(sess.answer)) =>
       LET a == ParseValue(sess.answer.body, 1).v.a IN
       /\ sess.ret.kind = "ok"
       /\ Len(sess.value) = Len(a)
       /\ Len(sess.value) = Len(sess.call.docs)
       /\ \A i \in 1..Len(a) :
            /\ sess.value[i] = [ID |-> Member(a[i], "id"), Rev |-> Member(a[i], "rev"),
                                Error |-> Member(a[i], "error"),
                                Reason |-> Member(a[i], "reason")]
            /\ sess.call.docs[i].ID # "" => sess.value[i].ID = sess.call.docs[i].ID

\* a bulk write of three documents returned no error and three outcomes: the
\* first and the third are conflicts, the second was written
C22_Witness ==
    /\ sess.call.op = "Bulk" /\ sess.ret.kind = "ok" /\ Len(sess.value) = 3
    /\ sess.value[1] = [ID |-> "X", Rev |-> "", Error |-> "conflict",
                        Reason |-> "Document update conflict."]
    /\ sess.value[2].Error = "" /\ sess.value[2].Rev = "1-aaa" /\ sess.value[2].ID = "Y"
    /\ sess.value[3].Error = "conflict"

\* C23: PutDesignDoc for the name n sends a PUT to /{db}/_design/n whose body
\* has the language "javascript" when the caller left the language empty and
\* the _id "_design/" + n when the caller left the id empty, and the caller's
\* own language and id otherwise; a GetDesignDoc(n) that succeeds returns a
\* design document whose id is "_design/" + n.
C23_DesignDocDefaults ==
    /\ sess.call.op = "PutDesignDoc" =>
          LET dd == sess.call.designDoc
              n == sess.call.name
              body == ParseValue(sess.request.body, 1).v.m
          IN /\ sess.request.method = "PUT"
             /\ sess.request.path = "/" \o DBName \o "/_design/" \o n
             /\ Member(Obj(body), "language")
                  = (IF dd.Language = "" THEN "javascript" ELSE dd.Language)
             /\ Member(Obj(body), "_id") = (IF dd.ID = "" THEN "_design/" \o n ELSE dd.ID)
             /\ ddoc.Language = Member(Obj(body), "language")
             /\ ddoc.ID = Member(Obj(body), "_id")
    /\ (sess.call.op = "GetDesignDoc" /\ sess.ret.kind = "ok") =>
          sess.value.ID = "_design/" \o sess.call.name

\* a design document built without id and language was written for the name
\* dd, and GetDesignDoc("dd") returned it with the id _design/dd, the
\* language javascript and its view
C23_Witness ==
    /\ sess.call.op = "GetDesignDoc" /\ sess.call.name = "dd" /\ sess.ret.kind = "ok"
    /\ sess.value = [ID |-> "_design/dd", Rev |-> "1-aaa", Language |-> "javascript",
                     Views |-> [by |-> [Map |-> "fn", Reduce |-> ""]]]

(***************************************************************************)
(* Properties of the encoding of combined options (checked under           *)
(* SpecEncode).                                                            *)
(***************************************************************************)
\* the value the body of the request sent has for "keys"
SentKeys == ParseValue(sent[1].body, 1).v.m["keys"]

\* C24, as stated: every ViewWithKeys call sends a POST whose body is
\* {"keys": [...]} with the keys as the elements of the array, in order, and
\* no keys query parameter.
C24_AlwaysKeysArray ==
    vop = "ViewWithKeys" =>
       /\ Len(sent) = 1
       /\ sent[1].method = "POST" /\ sent[1].hasBody
       /\ "keys" \notin DOMAIN sent[1].query
       /\ SentKeys = Arr(arg.keys)

\* C24, amended: a ViewWithKeys call whose keys can be serialized sends one
\* POST to the view, with no keys query parameter and the body {"keys": v};
\* for a non-empty list v is the array of the keys in the order given, each
\* element the JSON text a single-key parameter has for that key, and for a
\* nil list v is null.  A key that cannot be serialized sends nothing and
\* the call returns the error.
C24_KeysInBody ==
    vop = "ViewWithKeys" =>
       IF Serializable(Arr(arg.keys))
       THEN /\ Len(sent) = 1
            /\ sent[1].method = "POST" /\ sent[1].hasBody
            /\ sent[1].path = ViewPath(arg.designDoc, arg.viewName)
            /\ "keys" \notin DOMAIN sent[1].query
            /\ DOMAIN ParseValue(sent[1].body, 1).v.m = {"keys"}
            /\ SentKeys = (IF arg.keys = <<>> THEN Null ELSE Arr(arg.keys))
            /\ \A i \in 1..Len(arg.keys) :
                 Concat(Tokens(SentKeys.a[i]))
                   = ViewQuery([ZeroOptions EXCEPT !.Key = arg.keys[i]])["key"]
       ELSE sent = <<>> /\ ret.kind = "encode"

\* ViewWithKeys with the keys 5, "5" and ["cat", 0] sent the three keys in
\* the body, a number, a string and an array
C24_Witness ==
    /\ vop = "ViewWithKeys" /\ Len(sent) = 1 /\ sent[1].method = "POST"
    /\ arg.keys = <<Num(5), Str("5"), Arr(<<Str("cat"), Num(0)>>)>>
    /\ sent[1].body = <<"{", "\"keys\"", ":", "[", "5", ",", "\"5\"", ",",
                        "[", "\"cat\"", ",", "0", "]", "]", "}">>

\* an option set with only the field f of opts set
OnlyField(opts, f) == [ZeroOptions EXCEPT ![f] = opts[f]]

\* C25: in View (called directly or by Execute) the query of the request is,
\* field by field, what the field alone gives: no field suppresses, rewrites
\* or swaps the parameter of another.  With Descending set startkey carries
\* StartKey and endkey carries EndKey; Group and GroupLevel, and Key and
\* Keys, set together are both sent, and the call returns what the answer
\* gives.
C25_ParametersIndependent ==
    (vop \in {"View", "Execute"} /\ arg.opts # NilOptions) =>
       LET q == sent[1].query
           opts == arg.opts
       IN /\ Len(sent) = 1
          /\ DOMAIN q = UNION {DOMAIN ViewQuery(OnlyField(opts, f)) : f \in DOMAIN ZeroOptions}
          /\ \A f \in DOMAIN ZeroOptions :
               \A name \in DOMAIN ViewQuery(OnlyField(opts, f)) :
                  q[name] = ViewQuery(OnlyField(opts, f))[name]
          /\ (opts.Descending /\ opts.StartKey # Null) =>
                q["startkey"] = MarshalText(opts.StartKey)
          /\ (opts.Descending /\ opts.EndKey # Null) =>
                q["endkey"] = MarshalText(opts.EndKey)
          /\ (opts.Group /\ opts.GroupLevel > 0) =>
                q["group"] = "true" /\ q["group_level"] = Itoa(opts.GroupLevel)
          /\ (opts.Key # Null /\ Len(opts.Keys) > 0) =>
                /\ q["key"] = MarshalText(opts.Key)
                /\ q["keys"] = MarshalText(Arr(opts.Keys))
          /\ ret \in {Return(resp) : resp \in Responses}

\* View with a descending range, both grouping options and both a key and a
\* key list sent all seven parameters and returned without an error
C25_Witness ==
    /\ vop = "View" /\ ret.kind = "ok" /\ arg.opts # NilOptions
    /\ arg.opts.Descending /\ arg.opts.Group /\ arg.opts.Limit = 0 /\ arg.opts.Stale = ""
    /\ arg.opts.Reduce = Null
    /\ sent[1].query = [descending |-> "true", startkey |-> "[\"cat\",0]",
                         endkey |-> "\"5\"", group |-> "true", group_level |-> "2",
                         key |-> "\"5\"", keys |-> "[5,\"5\"]"]

\* C26: View, ViewWithKeys, AllDocs and Execute leave the option struct and
\* the builder as they were; a call that repeats the call before it, with the
\* same arguments, sends the same requests again, whatever was answered.
C26_ExecutionReadOnly ==
    [][vop' \in {"View", "ViewWithKeys", "AllDocs", "Execute"} =>
         /\ vb' = vb
         /\ copts' = copts
         /\ (vop' = vop /\ arg' = arg) => sent' = sent]_vars

\* Execute ran on a builder holding a descending range, sent the range, and
\* the builder still holds it
C26_Witness ==
    /\ vop = "Execute" /\ ret.kind = "couch" /\ ret.status = 404
    /\ vb.options = [ZeroOptions EXCEPT !.StartKey = Num(5), !.Descending = TRUE]
    /\ sent = <<ViewRequest("dd", "by", vb.options)>>
    /\ sent[1].query = [startkey |-> "5", descending |-> "true"]

\* the seven query parameters ViewWithKeys has
ViewWithKeysParams ==
    {"include_docs", "limit", "skip", "descending", "group", "group_level", "reduce"}

\* an option set with the thirteen fields ViewWithKeys has no parameter for
\* put back to their zero values
WithoutUnread(opts) ==
    [f \in DOMAIN ZeroOptions |->
       IF f \in {"IncludeDocs", "Limit", "Skip", "Descending", "Group", "GroupLevel", "Reduce"}
       THEN opts[f] ELSE ZeroOptions[f]]

\* C30: the query of a ViewWithKeys request holds none but include_docs,
\* limit, skip, descending, group, group_level and reduce and is the query
\* the option set gives with its other thirteen fields at zero; the body is
\* made from the keys argument alone, whatever the Keys field holds.
C30_ViewWithKeysFrame ==
    (vop = "ViewWithKeys" /\ sent # <<>>) =>
       /\ DOMAIN sent[1].query \subseteq ViewWithKeysParams
       /\ arg.opts # NilOptions =>
             sent[1].query = ViewWithKeysQuery(WithoutUnread(arg.opts))
       /\ arg.opts = NilOptions => sent[1].query = EmptyMap
       /\ sent[1].body = Tokens(Obj([keys |-> IF arg.keys = <<>> THEN Null
                                                ELSE Arr(arg.keys)]))

\* ViewWithKeys with every option field set and a nil keys argument sent the
\* seven parameters and the body {"keys": null}
C30_Witness ==
    /\ vop = "ViewWithKeys" /\ arg.opts = FullOptions /\ arg.keys = <<>>
    /\ sent[1].query = [include_docs |-> "true", limit |-> "2", skip |-> "2",
                         descending |-> "true", group |-> "true", group_level |-> "2",
                         reduce |-> "true"]
    /\ sent[1].body = <<"{", "\"keys\"", ":", "null", "}">>

(***************************************************************************)
(* Properties of a builder shared by two threads (checked under SpecRace). *)
(***************************************************************************)
\* C27: with one thread configuring a builder and another running Execute on
\* it, nothing ties the request to one state of the option set: each
\* parameter of the request comes from its own field alone, present when
\* some value the field has held passes the test and with the text of some
\* value the field has held.  The requests this allows include those no
\* state of the option set gives (the state C27_Witness describes).
C27_RequestFieldByField ==
    /\ DOMAIN raceReq \subseteq {"startkey", "endkey", "limit"}
    /\ "startkey" \in DOMAIN raceReq =>
          /\ \E v \in HeldValues("StartKey") : v # Null
          /\ \E v \in HeldValues("StartKey") : raceReq["startkey"] = MarshalText(v)
    /\ "endkey" \in DOMAIN raceReq =>
          /\ \E v \in HeldValues("EndKey") : v # Null
          /\ \E v \in HeldValues("EndKey") : raceReq["endkey"] = MarshalText(v)
    /\ "limit" \in DOMAIN raceReq =>
          /\ \E v \in HeldValues("Limit") : v > 0
          /\ \E v \in HeldValues("Limit") : raceReq["limit"] = Itoa(v)
    /\ racePc.exec = 0 => raceReq = EmptyMap

\* StartKey(5) and EndKey("5") were called, in this order, while Execute was
\* running; every read gave the value the field had at that moment, and the
\* request sent has endkey without startkey, which none of the three states
\* of the option set gives
C27_Witness ==
    /\ racePc.exec = RaceSent /\ ~racePc.stale /\ racePc.config = 2
    /\ raceHeld = {ZeroOptions, [ZeroOptions EXCEPT !.StartKey = Num(5)],
                   [ZeroOptions EXCEPT !.StartKey = Num(5), !.EndKey = Str("5")]}
    /\ raceReq = [endkey |-> "\"5\""]
    /\ raceReq \notin {ViewQuery(o) : o \in raceHeld}

(***************************************************************************)
(* The frame of a decode into a Document in use (checked under SpecDoc).   *)
(***************************************************************************)
\* C28: decoding a JSON object into a Document that holds values makes the
\* fields exactly the payload's non-reserved keys with their values (nothing
\* of the old fields stays), and sets the id, the revision and the deleted
\* flag from _id, _rev and _deleted when the key is there with a string, a
\* string and a boolean value; with the key missing or of another type the
\* attribute is what it was before.
C28_DecodeFrame ==
    (dop = "unmarshal" /\ IsJSONObject(wire) /\ pre # ZeroDocument) =>
       LET m == PayloadMap(wire)
           typed(k, ty) == k \in DOMAIN m /\ m[k].t = ty
       IN /\ ~derr
          /\ doc.Data = [k \in (DOMAIN m) \ ReservedKeys |-> m[k]]
          /\ doc.ID = (IF typed("_id", "str") THEN m["_id"].s ELSE pre.ID)
          /\ doc.Rev = (IF typed("_rev", "str") THEN m["_rev"].s ELSE pre.Rev)
          /\ doc.Deleted = (IF typed("_deleted", "bool") THEN m["_deleted"].b ELSE pre.Deleted)

\* a deleted Document X with revision 1-aaa and the field age took the
\* payload {"name": "Ann", "age": 11}: it is still X, 1-aaa and deleted, and
\* its fields are those of the payload
C28_Witness ==
    /\ dop = "unmarshal" /\ ~derr
    /\ pre.ID = "X" /\ pre.Rev = "1-aaa" /\ pre.Deleted /\ DOMAIN pre.Data = {"age", "_rev"}
    /\ wire = Tokens(Obj([name |-> Str("Ann"), age |-> Num(MaxInt)]))
    /\ doc = [ID |-> "X", Rev |-> "1-aaa", Deleted |-> TRUE,
              Data |-> [name |-> Str("Ann"), age |-> Num(MaxInt)]]

(***************************************************************************)
(* Where the error fallback ends (checked under SpecOps).                  *)
(***************************************************************************)
\* the body decodes into Error{Type, Reason}: it is JSON, null or an object,
\* and an "error" or "reason" member it has is a string or null
ParsesAsErrorRecord(body) ==
    LET r == ParseValue(body, 1) IN
    /\ r.ok /\ r.next = Len(body) + 1
    /\ r.v.t \in {"obj", "null"}
    /\ r.v.t = "obj" =>
         \A k \in {"error", "reason"} \cap DOMAIN r.v.m : r.v.m[k].t \in {"str", "null"}

\* C29: for every operation and every failure answer, the Error has the
\* status code of the answer; when the body decodes as an error record its
\* type and reason are the string members "error" and "reason" of the body,
\* the empty string for a member that is missing (so {} gives an empty type
\* and an empty reason), and only when the body does not decode are they
\* "unknown" and the raw body.
C29_FallbackOnlyOnDecodeFailure ==
    \A p \in Procs :
      FailureAnswered(p) =>
        LET body == answer[p].body IN
        /\ out[p].kind = "couch" /\ out[p].status = answer[p].status
        /\ IF ParsesAsErrorRecord(body)
           THEN /\ out[p].type = Member(ParseValue(body, 1).v, "error")
                /\ out[p].reason = Member(ParseValue(body, 1).v, "reason")
           ELSE /\ out[p].type = "unknown"
                /\ out[p].reason = FallbackText(body)

\* a call answered 500 with the body {} returned an Error with an empty type
\* and an empty reason, and a call answered 409 with {"error": "conflict"}
\* one of type conflict with an empty reason
C29_Witness ==
    /\ pc["p1"] = "done" /\ answer["p1"].status = 500 /\ answer["p1"].body = <<"{", "}">>
    /\ out["p1"] = [kind |-> "couch", status |-> 500, type |-> "", reason |-> ""]
    /\ pc["p2"] = "done" /\ answer["p2"].body = <<"{", "\"error\"", ":", "\"conflict\"", "}">>
    /\ out["p2"] = [kind |-> "couch", status |-> 409, type |-> "conflict", reason |-> ""]

====
